---- MODULE Spec2Model ----
(***************************************************************************)
(* Verification model of the videogen repository: caption timing           *)
(* (VideoGenerator._calculate_line_timings), the generate_video pipeline   *)
(* with its callers (Flask worker, CLI), the Gradio handler with its      *)
(* cancellation flag, and the Flask worker threads sharing the temp        *)
(* directory.                                                              *)
(***************************************************************************)
EXTENDS Integers, Sequences, FiniteSets, TLC

(***************************************************************************)
(* Exact rational arithmetic standing for the Python float arithmetic.     *)
(* A value is a pair <<numerator, denominator>> with denominator > 0,      *)
(* kept in lowest terms.                                                   *)
(***************************************************************************)
RECURSIVE GCD(_, _)
GCD(a, b) == IF b = 0 THEN a ELSE GCD(b, a % b)

Abs(x) == IF x < 0 THEN -x ELSE x

Rat(n, d) == LET g == GCD(Abs(n), d) IN <<n \div g, d \div g>>

RAdd(a, b) == Rat(a[1] * b[2] + b[1] * a[2], a[2] * b[2])

RSub(a, b) == Rat(a[1] * b[2] - b[1] * a[2], a[2] * b[2])

RMul(a, b) == Rat(a[1] * b[1], a[2] * b[2])

\* a / b for b > 0
RDiv(a, b) == Rat(a[1] * b[2], a[2] * b[1])

RLt(a, b) == a[1] * b[2] < b[1] * a[2]

RLe(a, b) == a[1] * b[2] <= b[1] * a[2]

RMax(a, b) == IF RLt(a, b) THEN b ELSE a

RMin(a, b) == IF RLt(b, a) THEN b ELSE a

\* int(x) for x >= 0
RFloor(a) == a[1] \div a[2]

Zero == <<0, 1>>

One == <<1, 1>>

(***************************************************************************)
(* Bounds of the model.                                                    *)
(***************************************************************************)
MaxLines == 3
MaxWords == 3
MaxHalfSeconds == 19
MaxCustom == 2
MaxEncoderEvents == 4

VARIABLES
    \* _calculate_line_timings
    lines,            \* word count len(text.split()) of each input line
    total_duration,   \* the total_duration argument
    timings,          \* the list being built: [line, start, end]
    current_time,     \* the running clock
    idx,              \* position of the for loop
    tpc,              \* "loop" | "done" | "idle"
    \* one generate_video run under its caller
    entry,            \* the caller: "flask" | "main" | "run" | "library"
    opts,             \* the media-source arguments of generate_video
    script,           \* the parsed display lines (word counts); <<>> = no segments
    output_filename,  \* the output_filename argument, as a sequence of name parts
    pc,               \* position in the caller and in generate_video
    audio_duration,   \* duration of the narration, None before it exists
    line_timings,     \* result of _calculate_line_timings
    video_paths,      \* number of clips supplied (valid_gifs / video_paths)
    background_clips, \* the clips loaded so far
    bg,               \* the arranged background track
    prev_progress,    \* last fraction reported before the current step
    emitted,          \* the reports made by the current step, in order
    logger,           \* the EncodingProgressLogger fields
    events,           \* number of encoder callbacks delivered
    attempt,          \* loop counter of the move / rmtree retry loops
    fs,               \* content of the files in the output directory, by path
    prev_output,      \* what the final path held when the job started
    temp_files,       \* files in the temp directory
    handles,          \* open clip and audio handles
    raised,           \* the exception propagating out of generate_video, or "none"
    outcome,          \* what the caller reports: "none" | "completed" | "error"
    \* gradio_app.py
    cancel_flag,      \* _cancel_flag
    gpc,              \* position of the generate_video handler
    g_input,          \* the inputs of the running handler
    g_outcome,        \* how the last handler run ended
    g_jobs,           \* number of handler runs so far
    flag_at_start,    \* history: _cancel_flag when the running handler was entered
    requested_in_job, \* history: request_cancel ran since the handler's reset_cancel
    \* app.py
    jobs,             \* the jobs dict, job ids in order of creation
    wpc,              \* position of each worker thread
    temp_dir,         \* TEMP_DIR: for each file name the job that wrote it, 0 = absent
    dir_exists,       \* TEMP_DIR exists
    needs,            \* the temp files each job has written and still reads
    response,         \* the last answer of /generate
    req,              \* the /status or /download request being served, or the last one
    observed,         \* history: the jobs a request has read as "completed"
    \* resize_video_to_fullscreen
    r_clip,           \* (clip.w, clip.h) of the argument
    r_scale,          \* scale
    r_scaled,         \* (new_w, new_h)
    r_size,           \* (clip.w, clip.h) of the clip being built
    r_crop_x,         \* the horizontal crop, if any
    r_crop_y,         \* the vertical crop, if any
    rpc,              \* position in resize_video_to_fullscreen
    \* one job under one of the five callers, and its external calls
    e_entry,          \* the caller: "flask" | "gradio" | "main" | "run" | "batch"
    e_language,       \* the target language of the narration
    e_script,         \* the script text, as its sections
    e_segments,       \* the result of parse_script
    e_text,           \* translated_text, the text handed to generate_audio
    e_calls,          \* history: the external calls made, with their outcome
    e_report,         \* what the caller reports when the job has ended
    epc,              \* position of the caller
    \* create_subtitle_caption
    c_text,           \* the text argument: the length of each of its words
    c_font_size,      \* the font_size argument
    c_glyph,          \* width in pixels of one character in the loaded font
    c_lines,          \* wrapped_lines: the length of each wrapped line
    c_box,            \* the rectangle handed to _draw_rounded_rect, if any
    cpc               \* position in create_subtitle_caption

tvars == <<lines, total_duration, timings, current_time, idx, tpc>>

jvars == <<entry, opts, script, output_filename, pc, audio_duration, line_timings,
           video_paths, background_clips, bg, prev_progress, emitted, logger,
           events, attempt, fs, prev_output, temp_files, handles, raised, outcome>>

gvars == <<cancel_flag, gpc, g_input, g_outcome, g_jobs, flag_at_start,
           requested_in_job>>

fvars == <<jobs, wpc, temp_dir, dir_exists, needs, response, req, observed>>

rvars == <<r_clip, r_scale, r_scaled, r_size, r_crop_x, r_crop_y, rpc>>

evars == <<e_entry, e_language, e_script, e_segments, e_text, e_calls, e_report,
           epc>>

cvars == <<c_text, c_font_size, c_glyph, c_lines, c_box, cpc>>

vars == <<tvars, jvars, gvars, fvars, rvars, evars, cvars>>

(***************************************************************************)
(* VideoGenerator._calculate_line_timings                                  *)
(***************************************************************************)
RECURSIVE SumSeq(_)
SumSeq(s) == IF s = <<>> THEN 0 ELSE s[1] + SumSeq(Tail(s))

\* total_words = sum(len(line[0].split()) for line in lines)
TotalWords(ls) == SumSeq(ls)

WordCountMutant(w) == 1

\* word_count = max(len(text.split()), 1)
WordCount(w) == IF w > 1 THEN w ELSE 1

MinLineSeconds == <<3, 2>>

FlooredMutant(share) == share

\* max(1.5, share)
Floored(share) == RMax(MinLineSeconds, share)

\* line_duration, floor and clamp to the remainder included
LineDuration(w, tw, D, cur) ==
    LET share == RMul(Rat(WordCount(w), tw), D)
        ld    == Floored(share)
    IN  IF RLt(D, RAdd(cur, ld)) THEN RSub(D, cur) ELSE ld

EmitsMutant(ld) == RLe(Zero, ld)

\* if line_duration > 0: timings.append(...)
Emits(ld) == RLt(Zero, ld)

\* the "Scale to fit" step
ScaleToFit(ts, cur, D) ==
    IF ts # <<>> /\ cur # D
    THEN [i \in 1..Len(ts) |->
            [line  |-> ts[i].line,
             start |-> RMul(ts[i].start, RDiv(D, cur)),
             end   |-> RMul(ts[i].end, RDiv(D, cur))]]
    ELSE ts

\* the body of one loop iteration on (timings, current_time)
LineStep(ts, cur, i, w, tw, D) ==
    LET ld == LineDuration(w, tw, D, cur)
    IN  [timings      |-> IF Emits(ld)
                          THEN Append(ts, [line  |-> i,
                                           start |-> cur,
                                           end   |-> RAdd(cur, ld)])
                          ELSE ts,
         current_time |-> RAdd(cur, ld)]

RECURSIVE TimingLoop(_, _, _, _, _)
TimingLoop(ls, i, D, ts, cur) ==
    IF i > Len(ls)
    THEN ScaleToFit(ts, cur, D)
    ELSE LET st == LineStep(ts, cur, i, ls[i], TotalWords(ls), D)
         IN  TimingLoop(ls, i + 1, D, st.timings, st.current_time)

\* the whole function, as generate_video calls it
calculate_line_timings(ls, D) ==
    IF TotalWords(ls) = 0 THEN <<>> ELSE TimingLoop(ls, 1, D, <<>>, Zero)

InputLines == UNION {[1..n -> 0..MaxWords] : n \in 0..MaxLines}

InputDurations == {Rat(k, 2) : k \in 1..MaxHalfSeconds}

TimingInit ==
    /\ lines \in InputLines
    /\ total_duration \in InputDurations
    /\ timings = <<>>
    /\ current_time = Zero
    /\ idx = 1
    /\ tpc = "loop"

\* the timing function is not running
TimingIdle ==
    /\ lines = <<>>
    /\ total_duration = Zero
    /\ timings = <<>>
    /\ current_time = Zero
    /\ idx = 1
    /\ tpc = "idle"

\* total_words == 0: return []
CalcEmpty ==
    /\ tpc = "loop"
    /\ TotalWords(lines) = 0
    /\ tpc' = "done"
    /\ UNCHANGED <<lines, total_duration, timings, current_time, idx>>
    /\ UNCHANGED <<jvars, gvars, fvars, rvars, evars, cvars>>

\* one iteration of "for text, seg_type in lines"
CalcLine ==
    /\ tpc = "loop"
    /\ TotalWords(lines) > 0
    /\ idx <= Len(lines)
    /\ LET st == LineStep(timings, current_time, idx, lines[idx],
                          TotalWords(lines), total_duration)
       IN  /\ timings' = st.timings
           /\ current_time' = st.current_time
    /\ idx' = idx + 1
    /\ UNCHANGED <<lines, total_duration, tpc>>
    /\ UNCHANGED <<jvars, gvars, fvars, rvars, evars, cvars>>

\* the loop is over: scale and return
CalcScale ==
    /\ tpc = "loop"
    /\ TotalWords(lines) > 0
    /\ idx > Len(lines)
    /\ timings' = ScaleToFit(timings, current_time, total_duration)
    /\ tpc' = "done"
    /\ UNCHANGED <<lines, total_duration, current_time, idx>>
    /\ UNCHANGED <<jvars, gvars, fvars, rvars, evars, cvars>>

TimingNext == CalcEmpty \/ CalcLine \/ CalcScale

(***************************************************************************)
(* VideoGenerator.generate_video and its callers.                          *)
(*                                                                         *)
(* Locals that the rest of the run never reads again (the media-source     *)
(* arguments, the caption list, the per-clip data once the track is        *)
(* composed, the encoder's logger once write_videofile is over) are        *)
(* dropped from the state at the step that reads them last.                *)
(***************************************************************************)
Entries == {"flask", "main", "run", "library"}

NoOpts == [custom |-> 0, anime |-> FALSE, giphy |-> FALSE, pixabay |-> FALSE,
           stock |-> FALSE]

\* custom: number of existing custom_gif_paths; stock: use_stock_videos and an
\* API key is configured
Options == [custom : 0..MaxCustom, anime : BOOLEAN, giphy : BOOLEAN,
            pixabay : BOOLEAN, stock : BOOLEAN]

\* the arguments each caller passes
EntryOptions(e) ==
    CASE e = "library" -> Options
      [] e = "run"     -> {[NoOpts EXCEPT !.stock = TRUE]}
      [] OTHER         -> {o \in Options : o.custom = 0 /\ ~o.anime /\ ~o.giphy
                                           /\ ~o.pixabay}

\* parse_script results: no segments, or display lines of two words each
Scripts == {<<>>, <<2, 2, 2>>}

EntryScripts(e) == IF e = "library" THEN Scripts \ {<<>>} ELSE Scripts

Filenames == {<<"short", ".mp4">>, <<"short", ".mov">>}

\* Flask names the file short_<job id>.mp4; the other callers pass a name on
EntryFilenames(e) == IF e = "flask" THEN {<<"short", ".mp4">>} ELSE Filenames

\* a name chosen by the user may already exist; a fresh uuid name does not
EntryPrevOutputs(e) == IF e \in {"flask", "library"} THEN {"absent"}
                       ELSE {"absent", "old"}

\* str.replace(old, new) on a name given by its parts
StrReplace(name, old, new) ==
    [i \in 1..Len(name) |-> IF name[i] = old THEN new ELSE name[i]]

OutputPath(name) == name

TempOutput(name) == StrReplace(OutputPath(name), ".mp4", "_encoding.mp4")

TempAudiofile(name) == StrReplace(OutputPath(name), ".mp4", "_temp_audio.mp4")

AllPaths == UNION {{OutputPath(f), TempOutput(f), TempAudiofile(f)} : f \in Filenames}

AudioDurations == {Rat(2, 1), Rat(6, 1)}

ClipDurations == {Rat(1, 1), Rat(4, 1)}

\* VideoFileClip(path): the clip opens with its native duration, or raises
ClipOutcomes == {[ok |-> FALSE, duration |-> Zero]}
                \cup {[ok |-> TRUE, duration |-> d] : d \in ClipDurations}

NoTrack == [segments |-> <<>>, duration |-> Zero]

\* bar is the progress bar of the pass the encoder is in, which bars_callback
\* receives and does not read
NoLogger == [pass_count |-> 0, render_pass |-> 0, current_total |-> 1,
             last_reported_pct |-> -1, highest_overall |-> Zero, bar |-> "none"]

NoHandles == [clips |-> 0, audio |-> FALSE, video |-> FALSE]

Pct(n) == Rat(n, 100)

\* a report that does not name its stage
ReportMutant(n, m) == [pct |-> Pct(n), msg |-> "progress"]

\* one call report_progress(pct, msg); msg is reduced to the stage it names
Report(n, m) == [pct |-> Pct(n), msg |-> m]

LastPct == IF emitted = <<>> THEN prev_progress ELSE emitted[Len(emitted)].pct

\* the step makes the reports rs, in order
Emit(rs) ==
    /\ prev_progress' = LastPct
    /\ emitted' = rs

JobInit ==
    /\ entry \in Entries
    /\ opts \in EntryOptions(entry)
    /\ script \in EntryScripts(entry)
    /\ output_filename \in EntryFilenames(entry)
    /\ prev_output \in EntryPrevOutputs(entry)
    /\ pc = "start"
    /\ audio_duration = Zero
    /\ line_timings = <<>>
    /\ video_paths = 0
    /\ background_clips = <<>>
    /\ bg = NoTrack
    /\ prev_progress = Zero
    /\ emitted = <<>>
    /\ logger = NoLogger
    /\ events = 0
    /\ attempt = 0
    /\ fs = [p \in AllPaths |->
                IF p = OutputPath(output_filename) THEN prev_output ELSE "absent"]
    /\ temp_files = {}
    /\ handles = NoHandles
    /\ raised = "none"
    /\ outcome = "none"

\* no job is running
JobIdle ==
    /\ entry = "library"
    /\ opts = NoOpts
    /\ script = <<>>
    /\ output_filename = <<"short", ".mp4">>
    /\ prev_output = "absent"
    /\ pc = "idle"
    /\ audio_duration = Zero
    /\ line_timings = <<>>
    /\ video_paths = 0
    /\ background_clips = <<>>
    /\ bg = NoTrack
    /\ prev_progress = Zero
    /\ emitted = <<>>
    /\ logger = NoLogger
    /\ events = 0
    /\ attempt = 0
    /\ fs = [p \in AllPaths |-> "absent"]
    /\ temp_files = {}
    /\ handles = NoHandles
    /\ raised = "none"
    /\ outcome = "none"

\* the caller parses the script and constructs the VideoGenerator
EntryStart ==
    /\ pc = "start"
    /\ IF script = <<>>
       THEN /\ pc' = "ended"
            /\ raised' = "no_content"
            /\ outcome' = "error"
       ELSE /\ pc' = "translate"
            /\ UNCHANGED <<raised, outcome>>
    /\ Emit(<<>>)
    /\ UNCHANGED <<entry, opts, script, output_filename, audio_duration,
                   line_timings, video_paths, background_clips, bg, logger,
                   events, attempt, fs, prev_output, temp_files, handles>>
    /\ UNCHANGED <<tvars, gvars, fvars, rvars, evars, cvars>>

\* Step 1: translate text
TranslateScript ==
    /\ pc = "translate"
    /\ Emit(<<Report(2, "translate"), Report(8, "translate")>>)
    /\ pc' = "audio"
    /\ UNCHANGED <<entry, opts, script, output_filename, audio_duration,
                   line_timings, video_paths, background_clips, bg, logger,
                   events, attempt, fs, prev_output, temp_files, handles,
                   raised, outcome>>
    /\ UNCHANGED <<tvars, gvars, fvars, rvars, evars, cvars>>

\* AudioGenerator.generate_audio: Edge TTS first, gTTS when it fails
AudioResult(edge_ok, gtts_ok) ==
    IF edge_ok THEN "edge" ELSE IF gtts_ok THEN "gtts" ELSE "fail"

\* Step 2: generate audio
GenerateAudio ==
    /\ pc = "audio"
    /\ \E edge_ok \in BOOLEAN, gtts_ok \in BOOLEAN, D \in AudioDurations :
          IF AudioResult(edge_ok, gtts_ok) # "fail"
          THEN /\ audio_duration' = D
               /\ temp_files' = temp_files \cup {"narration"}
               /\ Emit(<<Report(10, "audio"), Report(25, "audio")>>)
               /\ pc' = "captions"
               /\ UNCHANGED raised
          ELSE /\ Emit(<<Report(10, "audio")>>)
               /\ raised' = "audio"
               /\ pc' = "raised"
               /\ UNCHANGED <<audio_duration, temp_files>>
    /\ UNCHANGED <<entry, opts, script, output_filename, line_timings,
                   video_paths, background_clips, bg, logger, events, attempt,
                   fs, prev_output, handles, outcome>>
    /\ UNCHANGED <<tvars, gvars, fvars, rvars, evars, cvars>>

\* Step 3: process script segments
ProcessCaptions ==
    /\ pc = "captions"
    /\ line_timings' = calculate_line_timings(script, audio_duration)
    /\ Emit(<<Report(27, "captions"), Report(30, "captions")>>)
    /\ pc' = "custom"
    /\ UNCHANGED <<entry, opts, script, output_filename, audio_duration,
                   video_paths, background_clips, bg, logger, events, attempt,
                   fs, prev_output, temp_files, handles, raised, outcome>>
    /\ UNCHANGED <<tvars, gvars, fvars, rvars, evars, cvars>>

\* clip.fx(vfx.loop, n=loops) / concatenate_videoclips([clip] * loops)
Looped(clip, loops) ==
    [clip EXCEPT !.duration = RMul(Rat(loops, 1), @),
                 !.content = RMul(Rat(loops, 1), @),
                 !.loops = loops * @]

\* clip.subclip(0, t)
Subclip(clip, t) == [clip EXCEPT !.duration = t, !.content = RMin(@, t)]

\* a custom GIF/video, looped and trimmed to its share of the duration
CustomClip(d, per) ==
    LET clip   == [src |-> "custom", duration |-> d, content |-> d,
                   loops |-> 1, fade |-> Zero]
        looped == IF RLt(d, per)
                  THEN Looped(clip, RFloor(RDiv(per, d)) + 1)
                  ELSE clip
    IN  Subclip(looped, RMin(looped.duration, per))

\* the clips that opened, in input order
Loaded(outcomes) == SelectSeq(outcomes, LAMBDA o : o.ok)

\* positions (from 1) of the clips that opened
LoadedAt(outcomes) ==
    SelectSeq([i \in 1..Len(outcomes) |-> i], LAMBDA i : outcomes[i].ok)

\* Step 4, first part: custom GIF/video backgrounds
FetchCustom ==
    /\ pc = "custom"
    /\ IF opts.custom > 0
       THEN \E outcomes \in [1..opts.custom -> ClipOutcomes] :
               LET per   == RDiv(audio_duration, Rat(opts.custom, 1))
                   ok    == Loaded(outcomes)
                   clips == [i \in 1..Len(ok) |-> CustomClip(ok[i].duration, per)]
               IN  /\ video_paths' = opts.custom
                   /\ background_clips' = clips
                   /\ handles' = [handles EXCEPT !.clips = Len(clips)]
                   /\ Emit(<<Report(32, "fetch"), Report(35, "fetch")>>
                           \o (IF clips # <<>> THEN <<Report(45, "fetch")>>
                               ELSE <<>>))
       ELSE /\ Emit(<<Report(32, "fetch")>>)
            /\ UNCHANGED <<video_paths, background_clips, handles>>
    /\ pc' = "source"
    /\ UNCHANGED <<entry, opts, script, output_filename, audio_duration,
                   line_timings, bg, logger, events, attempt, fs, prev_output,
                   temp_files, raised, outcome>>
    /\ UNCHANGED <<tvars, gvars, fvars, rvars, evars, cvars>>

\* count=3 in every fetch call
FetchCount == 3

\* a downloaded clip as VideoFileClip opens it
FetchedClip(src, d) ==
    [src |-> src, duration |-> d, content |-> d, loops |-> 1, fade |-> Zero]

\* one branch of the if/elif chain over the media sources: fetch up to
\* FetchCount paths, open each, report after each clip that opened
FetchFrom(src, first) ==
    \E n \in 0..FetchCount :
      \E outcomes \in [1..n -> ClipOutcomes] :
        LET ok == Loaded(outcomes)
            at == LoadedAt(outcomes)
        IN  /\ video_paths' = n
            /\ background_clips' =
                   [i \in 1..Len(ok) |-> FetchedClip(src, ok[i].duration)]
            /\ handles' = [handles EXCEPT !.clips = Len(ok)]
            /\ temp_files' = IF n > 0 THEN temp_files \cup {"clips"} ELSE temp_files
            /\ Emit(first
                    \o (IF n > 0 THEN <<Report(45, "fetch")>> ELSE <<>>)
                    \o [k \in 1..Len(at) |-> Report(45 + at[k] * 3, "fetch")])
            /\ pc' = "fallback"
            /\ UNCHANGED <<entry, opts, script, output_filename, audio_duration,
                           line_timings, bg, logger, events, attempt, fs,
                           prev_output, raised, outcome>>
            /\ UNCHANGED <<tvars, gvars, fvars, rvars, evars, cvars>>

\* if not background_clips and use_anime_clips
FetchAnime ==
    /\ pc = "source"
    /\ background_clips = <<>> /\ opts.anime
    /\ FetchFrom("anime", <<Report(35, "fetch")>>)

\* elif not background_clips and use_giphy_clips
FetchGiphy ==
    /\ pc = "source"
    /\ ~(background_clips = <<>> /\ opts.anime)
    /\ background_clips = <<>> /\ opts.giphy
    /\ FetchFrom("giphy", <<Report(35, "fetch")>>)

\* elif not background_clips and use_pixabay_clips
FetchPixabay ==
    /\ pc = "source"
    /\ ~(background_clips = <<>> /\ opts.anime)
    /\ ~(background_clips = <<>> /\ opts.giphy)
    /\ background_clips = <<>> /\ opts.pixabay
    /\ FetchFrom("pixabay", <<Report(35, "fetch")>>)

\* elif not background_clips and use_stock_videos and self.stock_fetcher.api_key
FetchPexels ==
    /\ pc = "source"
    /\ ~(background_clips = <<>> /\ opts.anime)
    /\ ~(background_clips = <<>> /\ opts.giphy)
    /\ ~(background_clips = <<>> /\ opts.pixabay)
    /\ background_clips = <<>> /\ opts.stock
    /\ FetchFrom("pexels", <<Report(35, "fetch"), Report(38, "fetch")>>)

\* no branch of the chain is taken
FetchNone ==
    /\ pc = "source"
    /\ ~(background_clips = <<>> /\ opts.anime)
    /\ ~(background_clips = <<>> /\ opts.giphy)
    /\ ~(background_clips = <<>> /\ opts.pixabay)
    /\ ~(background_clips = <<>> /\ opts.stock)
    /\ Emit(<<>>)
    /\ pc' = "fallback"
    /\ UNCHANGED <<entry, opts, script, output_filename, audio_duration,
                   line_timings, video_paths, background_clips, bg, logger,
                   events, attempt, fs, prev_output, temp_files, handles,
                   raised, outcome>>
    /\ UNCHANGED <<tvars, gvars, fvars, rvars, evars, cvars>>

\* bg_generator.generate_animated_background(duration=audio_duration, ...)
ProceduralClip(D) ==
    [src |-> "procedural", duration |-> D, content |-> D, loops |-> 1,
     fade |-> Zero]

\* fallback to an animated background when no clip was loaded
FallbackBackground ==
    /\ pc = "fallback"
    /\ IF background_clips = <<>>
       THEN /\ background_clips' = <<ProceduralClip(audio_duration)>>
            /\ Emit(<<Report(50, "fetch"), Report(55, "fetch")>>)
       ELSE /\ UNCHANGED background_clips
            /\ Emit(<<Report(55, "fetch")>>)
    /\ pc' = "arrange"
    /\ UNCHANGED <<entry, opts, script, output_filename, audio_duration,
                   line_timings, video_paths, bg, logger, events, attempt, fs,
                   prev_output, temp_files, handles, raised, outcome>>
    /\ UNCHANGED <<tvars, gvars, fvars, rvars, evars, cvars>>

SetDurationMutant(clip, D) == clip

\* clip.set_duration(D)
SetDuration(clip, D) == [clip EXCEPT !.duration = D]

AdjustedMutant(clip, time_per_clip) == Subclip(clip, time_per_clip)

\* the slice of one clip: trimmed, or looped and trimmed
Adjusted(clip, time_per_clip) ==
    IF RLe(time_per_clip, clip.duration)
    THEN Subclip(clip, time_per_clip)
    ELSE Subclip(Looped(clip, RFloor(RDiv(time_per_clip, clip.duration)) + 1),
                 time_per_clip)

\* seconds of adjusted.crossfadein(0.5)
CrossfadeSeconds == <<1, 2>>

\* if i > 0: adjusted = adjusted.crossfadein(0.5)   (i counted from 1 here)
Crossfadein(clip, i) == IF i > 1 THEN [clip EXCEPT !.fade = CrossfadeSeconds] ELSE clip

RECURSIVE SumDurations(_)
SumDurations(cs) ==
    IF cs = <<>> THEN Zero ELSE RAdd(cs[1].duration, SumDurations(Tail(cs)))

TimePerClipMutant(D, clips) == RDiv(D, Rat(Len(clips) + 1, 1))

\* time_per_clip = audio_duration / len(background_clips)
TimePerClip(D, clips) == RDiv(D, Rat(Len(clips), 1))

\* "Distribute all stock videos evenly across the duration"
Arrange(clips, D) ==
    IF Len(clips) = 1
    THEN [segments |-> <<SetDuration(clips[1], D)>>,
          duration |-> SetDuration(clips[1], D).duration]
    ELSE LET adjusted == [i \in 1..Len(clips) |->
                             Crossfadein(Adjusted(clips[i], TimePerClip(D, clips)), i)]
             total    == SumDurations(adjusted)
         IN  [segments |-> adjusted,
              duration |-> IF RLt(D, total) THEN D ELSE total]

\* Step 5: build the background track
ArrangeClips ==
    /\ pc = "arrange"
    /\ bg' = Arrange(background_clips, audio_duration)
    /\ Emit(<<Report(57, "arrange"), Report(62, "arrange")>>)
    /\ pc' = "render"
    /\ UNCHANGED <<entry, opts, script, output_filename, audio_duration,
                   line_timings, video_paths, background_clips, logger, events,
                   attempt, fs, prev_output, temp_files, handles, raised, outcome>>
    /\ UNCHANGED <<tvars, gvars, fvars, rvars, evars, cvars>>

\* the reports of the caption loop: after every third caption and the last
CaptionReports(total_captions) ==
    LET at == SelectSeq([i \in 1..total_captions |-> i - 1],
                        LAMBDA i : (i + 1) % 3 = 0 \/ i = total_captions - 1)
    IN  [k \in 1..Len(at) |->
            [pct |-> RAdd(Pct(64), RMul(Rat(at[k], total_captions), Pct(6))),
             msg |-> "render"]]

\* Step 6: create captions
CreateCaptions ==
    /\ pc = "render"
    /\ Emit(<<Report(64, "render")>> \o CaptionReports(Len(line_timings))
            \o <<Report(70, "render")>>)
    /\ pc' = "composite"
    /\ UNCHANGED <<entry, opts, script, output_filename, audio_duration,
                   line_timings, video_paths, background_clips, bg, logger,
                   events, attempt, fs, prev_output, temp_files, handles,
                   raised, outcome>>
    /\ UNCHANGED <<tvars, gvars, fvars, rvars, evars, cvars>>

\* Step 7: composite layers and attach the narration
Composite ==
    /\ pc = "composite"
    /\ handles' = [handles EXCEPT !.audio = TRUE, !.video = TRUE]
    /\ Emit(<<Report(72, "composite"), Report(75, "composite")>>)
    /\ pc' = "encode"
    /\ opts' = NoOpts
    /\ script' = <<>>
    /\ line_timings' = <<>>
    /\ video_paths' = 0
    /\ background_clips' = <<>>
    /\ bg' = [bg EXCEPT !.segments = <<>>]
    /\ UNCHANGED <<entry, output_filename, audio_duration, logger, events,
                   attempt, fs, prev_output, temp_files, raised, outcome>>
    /\ UNCHANGED <<tvars, gvars, fvars, rvars, evars, cvars>>

(***************************************************************************)
(* EncodingProgressLogger                                                  *)
(***************************************************************************)
\* values the encoder passes to bars_callback
EncoderValues == {0, 1, 2, 600}

EncoderAttrs == {"total", "index", "message"}

\* the bars of write_videofile: "chunk" while the audio is prepared, "t"
\* while the frames are written
EncoderBars == {"chunk", "t"}

\* a positive total announces a new pass
NewPass(attr, value) == attr = "total" /\ value > 0

\* pass totals above this are frame rendering passes
LargePass == 500

ReportOverallMutant(lg, overall, msg) ==
    [logger  |-> [lg EXCEPT !.highest_overall = overall],
     reports |-> <<[pct |-> overall, msg |-> msg]>>]

\* _report: never going backward
ReportOverall(lg, overall, msg) ==
    LET o == RMax(overall, lg.highest_overall)
    IN  [logger  |-> [lg EXCEPT !.highest_overall = o],
         reports |-> <<[pct |-> o, msg |-> msg]>>]

Silent(lg) == [logger |-> lg, reports |-> <<>>]

\* bars_callback(bar, attr, value)
BarsCallback(lg, attr, value) ==
    IF NewPass(attr, value)
    THEN LET lg1 == [lg EXCEPT !.pass_count = @ + 1,
                               !.current_total = value,
                               !.last_reported_pct = -1]
         IN  IF value > LargePass
             THEN LET lg2 == [lg1 EXCEPT !.render_pass = @ + 1]
                  IN  IF lg2.render_pass = 1
                      THEN ReportOverall(lg2, Pct(80), "rendering")
                      ELSE Silent(lg2)
             ELSE Silent(lg1)
    ELSE IF attr # "index"
    THEN Silent(lg)
    ELSE LET total      == IF lg.current_total > 1 THEN lg.current_total ELSE 1
             pct        == RMin(Rat(value, total), One)
             report_pct == RFloor(RMul(pct, Rat(100, 1)))
         IN  IF report_pct <= lg.last_reported_pct
             THEN Silent(lg)
             ELSE IF lg.render_pass > 0
             THEN IF report_pct % 5 # 0 /\ report_pct # 100
                  THEN Silent(lg)
                  ELSE ReportOverall(
                         [lg EXCEPT !.last_reported_pct = report_pct],
                         IF lg.render_pass = 1
                         THEN RAdd(Pct(80), RMul(pct, Pct(6)))
                         ELSE RAdd(Pct(86), RMul(pct, Pct(6))),
                         IF lg.render_pass > 1 THEN "writing" ELSE "rendering")
             ELSE IF report_pct % 50 # 0
                  THEN Silent(lg)
                  ELSE ReportOverall(
                         [lg EXCEPT !.last_reported_pct = report_pct],
                         RAdd(Pct(78), RMul(pct, Pct(2))),
                         "audio_prep")

Write(f, path, content) == [f EXCEPT ![path] = content]

Remove(f, path) == [f EXCEPT ![path] = "absent"]

\* os.rename(src, dst)
Rename(f, src, dst) ==
    IF src = dst THEN f ELSE [f EXCEPT ![dst] = f[src], ![src] = "absent"]

\* Step 8: the export begins: write_videofile starts writing the temp files
EncodeStart ==
    /\ pc = "encode"
    /\ logger' = [NoLogger EXCEPT !.highest_overall = Pct(78)]
    /\ events' = 0
    /\ fs' = Write(Write(fs, TempAudiofile(output_filename), "complete"),
                   TempOutput(output_filename), "partial")
    /\ Emit(<<Report(78, "encode")>>)
    /\ pc' = "encoding"
    /\ UNCHANGED <<entry, opts, script, output_filename, audio_duration,
                   line_timings, video_paths, background_clips, bg, attempt,
                   prev_output, temp_files, handles, raised, outcome>>
    /\ UNCHANGED <<tvars, gvars, fvars, rvars, evars, cvars>>

\* the encoder calls the logger
EncoderEvent ==
    /\ pc = "encoding"
    /\ events < MaxEncoderEvents
    /\ \E attr \in EncoderAttrs, value \in EncoderValues,
          bar \in EncoderBars \cup {logger.bar} :
          LET r == BarsCallback(logger, attr, value)
          IN  /\ NewPass(attr, value) \/ bar = logger.bar
              /\ logger' = [r.logger EXCEPT !.bar = bar]
              /\ Emit(r.reports)
    /\ events' = events + 1
    /\ UNCHANGED <<entry, opts, script, output_filename, pc, audio_duration,
                   line_timings, video_paths, background_clips, bg, attempt, fs,
                   prev_output, temp_files, handles, raised, outcome>>
    /\ UNCHANGED <<tvars, gvars, fvars, rvars, evars, cvars>>

\* write_videofile raises
EncodeFail ==
    /\ pc = "encoding"
    /\ raised' = "encoder"
    /\ pc' = "raised"
    /\ logger' = NoLogger
    /\ events' = 0
    /\ Emit(<<>>)
    /\ UNCHANGED <<entry, opts, script, output_filename, audio_duration,
                   line_timings, video_paths, background_clips, bg, attempt,
                   fs, prev_output, temp_files, handles, outcome>>
    /\ UNCHANGED <<tvars, gvars, fvars, rvars, evars, cvars>>

\* write_videofile returns; the temp audio file is removed unless it is locked
EncodeFinish ==
    /\ pc = "encoding"
    /\ \E removed \in BOOLEAN :
          LET written == Write(fs, TempOutput(output_filename), "complete")
          IN  fs' = IF removed
                    THEN Remove(written, TempAudiofile(output_filename))
                    ELSE written
    /\ Emit(<<>>)
    /\ pc' = "release"
    /\ logger' = NoLogger
    /\ events' = 0
    /\ UNCHANGED <<entry, opts, script, output_filename, audio_duration,
                   line_timings, video_paths, background_clips, bg, attempt,
                   prev_output, temp_files, handles, raised, outcome>>
    /\ UNCHANGED <<tvars, gvars, fvars, rvars, evars, cvars>>

\* close all clips before moving the file
ReleaseResources ==
    /\ pc = "release"
    /\ handles' = NoHandles
    /\ Emit(<<Report(92, "encode"), Report(94, "release"), Report(97, "finalize")>>)
    /\ attempt' = 0
    /\ pc' = "move_remove"
    /\ UNCHANGED <<entry, opts, script, output_filename, audio_duration,
                   line_timings, video_paths, background_clips, bg, logger,
                   events, fs, prev_output, temp_files, raised, outcome>>
    /\ UNCHANGED <<tvars, gvars, fvars, rvars, evars, cvars>>

MoveAttempts == 3

\* the except branch of the move loop: retry, or fall back to copying
MoveFailed ==
    IF attempt < MoveAttempts - 1
    THEN /\ attempt' = attempt + 1
         /\ pc' = "move_remove"
    ELSE /\ pc' = "copy"
         /\ UNCHANGED attempt

\* if os.path.exists(output_path): os.remove(output_path)
RemoveOld ==
    /\ pc = "move_remove"
    /\ IF fs[OutputPath(output_filename)] = "absent"
       THEN /\ pc' = "move_rename"
            /\ UNCHANGED <<fs, attempt>>
       ELSE \E ok \in BOOLEAN :
               IF ok
               THEN /\ fs' = Remove(fs, OutputPath(output_filename))
                    /\ pc' = "move_rename"
                    /\ UNCHANGED attempt
               ELSE /\ MoveFailed
                    /\ UNCHANGED fs
    /\ Emit(<<>>)
    /\ UNCHANGED <<entry, opts, script, output_filename, audio_duration,
                   line_timings, video_paths, background_clips, bg, logger,
                   events, prev_output, temp_files, handles, raised, outcome>>
    /\ UNCHANGED <<tvars, gvars, fvars, rvars, evars, cvars>>

\* shutil.move(temp_output, output_path): a rename; when the rename fails
\* shutil.move copies and unlinks, and either of the two may fail
MoveFile ==
    /\ pc = "move_rename"
    /\ LET src == TempOutput(output_filename)
           dst == OutputPath(output_filename)
       IN  \E how \in {"renamed", "failed", "copy_broken", "unlink_failed"} :
              CASE how = "renamed" /\ fs[src] # "absent" ->
                      /\ fs' = Rename(fs, src, dst)
                      /\ pc' = "finish"
                      /\ UNCHANGED attempt
                [] how = "copy_broken" /\ fs[src] # "absent" /\ src # dst ->
                      /\ fs' = Write(fs, dst, "partial")
                      /\ MoveFailed
                [] how = "unlink_failed" /\ fs[src] # "absent" /\ src # dst ->
                      /\ fs' = Write(fs, dst, fs[src])
                      /\ MoveFailed
                [] OTHER ->
                      /\ MoveFailed
                      /\ UNCHANGED fs
    /\ Emit(<<>>)
    /\ UNCHANGED <<entry, opts, script, output_filename, audio_duration,
                   line_timings, video_paths, background_clips, bg, logger,
                   events, prev_output, temp_files, handles, raised, outcome>>
    /\ UNCHANGED <<tvars, gvars, fvars, rvars, evars, cvars>>

\* shutil.copy2(temp_output, output_path) starts, or raises at once
CopyFallback ==
    /\ pc = "copy"
    /\ LET src == TempOutput(output_filename)
           dst == OutputPath(output_filename)
       IN  IF fs[src] = "absent" \/ src = dst
           THEN /\ raised' = "copy"
                /\ pc' = "raised"
                /\ UNCHANGED fs
           ELSE /\ fs' = Write(fs, dst, "partial")
                /\ pc' = "copying"
                /\ UNCHANGED raised
    /\ Emit(<<>>)
    /\ UNCHANGED <<entry, opts, script, output_filename, audio_duration,
                   line_timings, video_paths, background_clips, bg, logger,
                   events, attempt, prev_output, temp_files, handles, outcome>>
    /\ UNCHANGED <<tvars, gvars, fvars, rvars, evars, cvars>>

\* the copy ends: complete, then a best-effort os.remove(temp_output); or it raises
CopyFinish ==
    /\ pc = "copying"
    /\ LET src == TempOutput(output_filename)
           dst == OutputPath(output_filename)
       IN  \E how \in {"copied", "copied_temp_left", "failed"} :
              CASE how = "copied" ->
                      /\ fs' = Remove(Write(fs, dst, fs[src]), src)
                      /\ pc' = "finish"
                      /\ UNCHANGED raised
                [] how = "copied_temp_left" ->
                      /\ fs' = Write(fs, dst, fs[src])
                      /\ pc' = "finish"
                      /\ UNCHANGED raised
                [] OTHER ->
                      /\ raised' = "copy"
                      /\ pc' = "raised"
                      /\ UNCHANGED fs
    /\ Emit(<<>>)
    /\ UNCHANGED <<entry, opts, script, output_filename, audio_duration,
                   line_timings, video_paths, background_clips, bg, logger,
                   events, attempt, prev_output, temp_files, handles, outcome>>
    /\ UNCHANGED <<tvars, gvars, fvars, rvars, evars, cvars>>

\* report "Done!" and return output_path
Finish ==
    /\ pc = "finish"
    /\ Emit(<<Report(99, "done")>>)
    /\ pc' = "returned"
    /\ UNCHANGED <<entry, opts, script, output_filename, audio_duration,
                   line_timings, video_paths, background_clips, bg, logger,
                   events, attempt, fs, prev_output, temp_files, handles,
                   raised, outcome>>
    /\ UNCHANGED <<tvars, gvars, fvars, rvars, evars, cvars>>

\* the process dies while the output is being written or put in place
Crash ==
    /\ pc \in {"encoding", "release", "move_remove", "move_rename", "copy", "copying"}
    /\ pc' = "crashed"
    /\ Emit(<<>>)
    /\ UNCHANGED <<entry, opts, script, output_filename, audio_duration,
                   line_timings, video_paths, background_clips, bg, logger,
                   events, attempt, fs, prev_output, temp_files, handles,
                   raised, outcome>>
    /\ UNCHANGED <<tvars, gvars, fvars, rvars, evars, cvars>>

(***************************************************************************)
(* The callers: what they do when generate_video returns or raises.        *)
(***************************************************************************)
\* callers that call cleanup_temp_files after a successful run
CleansOnReturn(e) == e \in {"flask", "main", "run"}

\* callers that call cleanup_temp_files when generate_video raised (finally)
CleansOnRaise(e) == e \in {"main", "run"}

Ended == IF raised = "none" THEN "completed" ELSE "error"

\* generate_video returned
HandleReturn ==
    /\ pc = "returned"
    /\ IF CleansOnReturn(entry)
       THEN /\ pc' = "cleanup"
            /\ attempt' = 0
            /\ UNCHANGED outcome
       ELSE /\ pc' = "ended"
            /\ outcome' = Ended
            /\ UNCHANGED attempt
    /\ Emit(<<>>)
    /\ UNCHANGED <<entry, opts, script, output_filename, audio_duration,
                   line_timings, video_paths, background_clips, bg, logger,
                   events, fs, prev_output, temp_files, handles, raised>>
    /\ UNCHANGED <<tvars, gvars, fvars, rvars, evars, cvars>>

\* generate_video raised
HandleRaise ==
    /\ pc = "raised"
    /\ IF CleansOnRaise(entry)
       THEN /\ pc' = "cleanup"
            /\ attempt' = 0
            /\ UNCHANGED outcome
       ELSE /\ pc' = "ended"
            /\ outcome' = Ended
            /\ UNCHANGED attempt
    /\ Emit(<<>>)
    /\ UNCHANGED <<entry, opts, script, output_filename, audio_duration,
                   line_timings, video_paths, background_clips, bg, logger,
                   events, fs, prev_output, temp_files, handles, raised>>
    /\ UNCHANGED <<tvars, gvars, fvars, rvars, evars, cvars>>

RmtreeAttempts == 3

\* the per-file pass after the first failure
LastAttemptMutant(a) == TRUE

\* if attempt < 2: ... else:
LastAttempt(a) == ~(a < RmtreeAttempts - 1)

\* cleanup_temp_files: one attempt of shutil.rmtree(self.temp_dir); after the
\* last failure, files are unlinked one by one, skipping the locked ones
CleanupTempFiles ==
    /\ pc = "cleanup"
    /\ \E ok \in BOOLEAN :
          IF ok
          THEN /\ temp_files' = {}
               /\ pc' = "ended"
               /\ outcome' = Ended
               /\ UNCHANGED attempt
          ELSE IF ~LastAttempt(attempt)
          THEN /\ attempt' = attempt + 1
               /\ UNCHANGED <<temp_files, pc, outcome>>
          ELSE \E left \in SUBSET temp_files :
                  /\ temp_files' = left
                  /\ pc' = "ended"
                  /\ outcome' = Ended
                  /\ UNCHANGED attempt
    /\ Emit(<<>>)
    /\ UNCHANGED <<entry, opts, script, output_filename, audio_duration,
                   line_timings, video_paths, background_clips, bg, logger,
                   events, fs, prev_output, handles, raised>>
    /\ UNCHANGED <<tvars, gvars, fvars, rvars, evars, cvars>>

JobNext ==
    \/ EntryStart \/ TranslateScript \/ GenerateAudio \/ ProcessCaptions
    \/ FetchCustom \/ FetchAnime \/ FetchGiphy \/ FetchPixabay \/ FetchPexels
    \/ FetchNone \/ FallbackBackground \/ ArrangeClips \/ CreateCaptions
    \/ Composite \/ EncodeStart \/ EncoderEvent \/ EncodeFail \/ EncodeFinish
    \/ ReleaseResources \/ RemoveOld \/ MoveFile \/ CopyFallback \/ CopyFinish
    \/ Finish \/ Crash \/ HandleReturn \/ HandleRaise \/ CleanupTempFiles

(***************************************************************************)
(* gradio_app.py: the cancellation flag and the generate_video handler     *)
(***************************************************************************)

\* handler runs of one session
MaxGradioJobs == 2

\* _cancel_flag.set()
request_cancel(flag) == TRUE

\* _cancel_flag.is_set()
is_cancelled(flag) == flag

reset_cancelMutant(flag) == flag

\* _cancel_flag.clear()
reset_cancel(flag) == FALSE

\* the parameters of VideoGenerator.generate_video
GeneratorParams ==
    {"segments", "output_filename", "use_stock_videos", "stock_keywords",
     "target_language", "progress_callback", "use_anime_clips",
     "use_giphy_clips", "use_pixabay_clips", "custom_gif_paths",
     "custom_soundtrack_path", "soundtrack_volume"}

\* the keyword arguments of the handler's call
GradioCallKwargs ==
    {"segments", "output_filename", "stock_keywords", "target_language",
     "progress_callback", "use_anime_clips", "use_giphy_clips",
     "use_pixabay_clips", "custom_gif_path", "custom_soundtrack_path",
     "soundtrack_volume"}

\* Python binds the call only if every keyword names a parameter
CallAccepted == GradioCallKwargs \subseteq GeneratorParams

\* exception messages, lower-cased, as word sequences
MsgCancelled   == <<"generation", "cancelled">>
MsgCancelledCb == <<"generation", "cancelled", "by", "user">>
MsgNoParse     == <<"could", "not", "parse", "script">>
MsgTypeError   == <<"unexpected", "keyword", "argument", "custom_gif_path">>

\* "cancelled" in str(e).lower()
MentionsCancelled(msg) == \E i \in 1..Len(msg) : msg[i] = "cancelled"

\* the except branch of the handler: the gr.Error it raises
HandlerError(msg) == IF MentionsCancelled(msg) THEN "cancelled" ELSE "error"

GradioInputs ==
    [script : {"blank", "noparse", "ok"}, has_source : BOOLEAN, keys_ok : BOOLEAN]

NoGradioInput == [script |-> "blank", has_source |-> FALSE, keys_ok |-> FALSE]

GradioInit ==
    /\ cancel_flag = FALSE
    /\ gpc = "idle"
    /\ g_input = NoGradioInput
    /\ g_outcome = "none"
    /\ g_jobs = 0
    /\ flag_at_start = FALSE
    /\ requested_in_job = FALSE

\* the Gradio app is not running
GradioIdle ==
    /\ cancel_flag = FALSE
    /\ gpc = "off"
    /\ g_input = NoGradioInput
    /\ g_outcome = "none"
    /\ g_jobs = 0
    /\ flag_at_start = FALSE
    /\ requested_in_job = FALSE

\* the handler ends with the given outcome
GradioEnd(res) ==
    /\ g_outcome' = res
    /\ gpc' = "idle"

\* stop_btn.click: request_cancel, at any time
RequestCancel ==
    /\ gpc # "off"
    /\ cancel_flag' = request_cancel(cancel_flag)
    /\ requested_in_job' = (requested_in_job \/ gpc # "idle")
    /\ UNCHANGED <<gpc, g_input, g_outcome, g_jobs, flag_at_start>>
    /\ UNCHANGED <<tvars, jvars, fvars, rvars, evars, cvars>>

\* generate_btn.click, one handler at a time: reset_cancel() and the
\* validations that raise gr.Error outside the try block
GradioStart ==
    /\ gpc = "idle"
    /\ g_jobs < MaxGradioJobs
    /\ \E in \in GradioInputs :
          /\ g_input' = in
          /\ IF in.script = "blank" \/ ~in.has_source \/ ~in.keys_ok
             THEN GradioEnd("rejected")
             ELSE /\ gpc' = "check1"
                  /\ g_outcome' = "none"
    /\ g_jobs' = g_jobs + 1
    /\ flag_at_start' = cancel_flag
    /\ cancel_flag' = reset_cancel(cancel_flag)
    /\ requested_in_job' = FALSE
    /\ UNCHANGED <<tvars, jvars, fvars, rvars, evars, cvars>>

\* first is_cancelled() check, then VideoGenerator(...)
GradioCheck1 ==
    /\ gpc = "check1"
    /\ IF is_cancelled(cancel_flag)
       THEN GradioEnd(HandlerError(MsgCancelled))
       ELSE gpc' = "check2" /\ UNCHANGED g_outcome
    /\ UNCHANGED <<cancel_flag, g_input, g_jobs, flag_at_start, requested_in_job>>
    /\ UNCHANGED <<tvars, jvars, fvars, rvars, evars, cvars>>

\* second check, then parse_script
GradioCheck2 ==
    /\ gpc = "check2"
    /\ IF is_cancelled(cancel_flag)
       THEN GradioEnd(HandlerError(MsgCancelled))
       ELSE IF g_input.script = "noparse"
       THEN GradioEnd(HandlerError(MsgNoParse))
       ELSE gpc' = "check3" /\ UNCHANGED g_outcome
    /\ UNCHANGED <<cancel_flag, g_input, g_jobs, flag_at_start, requested_in_job>>
    /\ UNCHANGED <<tvars, jvars, fvars, rvars, evars, cvars>>

\* third check, then the file paths are resolved
GradioCheck3 ==
    /\ gpc = "check3"
    /\ IF is_cancelled(cancel_flag)
       THEN GradioEnd(HandlerError(MsgCancelled))
       ELSE gpc' = "call" /\ UNCHANGED g_outcome
    /\ UNCHANGED <<cancel_flag, g_input, g_jobs, flag_at_start, requested_in_job>>
    /\ UNCHANGED <<tvars, jvars, fvars, rvars, evars, cvars>>

\* generator.generate_video(...): the call is bound, or TypeError is raised
\* and reaches the except branch
GradioCall ==
    /\ gpc = "call"
    /\ IF CallAccepted
       THEN gpc' = "generating" /\ UNCHANGED g_outcome
       ELSE GradioEnd(HandlerError(MsgTypeError))
    /\ UNCHANGED <<cancel_flag, g_input, g_jobs, flag_at_start, requested_in_job>>
    /\ UNCHANGED <<tvars, jvars, fvars, rvars, evars, cvars>>

GradioNext ==
    \/ RequestCancel \/ GradioStart \/ GradioCheck1 \/ GradioCheck2
    \/ GradioCheck3 \/ GradioCall

(***************************************************************************)
(* app.py: /generate and the worker thread generate_video_async            *)
(***************************************************************************)

\* jobs requested from the Flask app
MaxFlaskJobs == 2

\* keywords searched by one job, one download each
MaxKeywords == 2

FlaskJobIds == 1..MaxFlaskJobs

\* temp_dir / narration_<uuid>.mp3, one fresh name per job
Narration(j) == <<"narration", j>>

\* temp_dir / stock_video_<index>.mp4
StockVideo(i) == <<"stock_video", i>>

TempNames ==
    {Narration(j) : j \in FlaskJobIds} \cup {StockVideo(i) : i \in 0..(MaxKeywords - 1)}

VideoJob(job_id) ==
    [job_id |-> job_id, status |-> "pending", progress |-> 0,
     output_file |-> "None", error |-> "None"]

Response(code) == [code |-> code, status |-> "unread", output_file |-> "None"]

\* no request has arrived yet
NoRequest ==
    [route |-> "none", job_id |-> 0, at |-> "idle", status |-> "unread",
     answer |-> Response("none")]

\* the positions of the worker at its last three assignments
WriteSteps == <<"write1", "write2", "write3">>

\* status written before output_file
CompletionOrderMutant == <<"status", "output_file", "progress">>

\* the attributes the worker assigns when generate_video has returned, in order
CompletionOrder == <<"output_file", "status", "progress">>

Written(job, attr) ==
    CASE attr = "output_file" -> [job EXCEPT !.output_file = "short"]
      [] attr = "status"      -> [job EXCEPT !.status = "completed"]
      [] attr = "progress"    -> [job EXCEPT !.progress = 100]

\* what the handler returns, given the status it read and the output_file it reads
Answer(route, status, output_file) ==
    IF route = "status"
    THEN [code |-> "200", status |-> status, output_file |-> output_file]
    ELSE IF status # "completed" \/ output_file = "None"
    THEN [code |-> "400", status |-> status, output_file |-> output_file]
    ELSE [code |-> "file", status |-> status, output_file |-> output_file]

FlaskInit ==
    /\ jobs = <<>>
    /\ wpc = [j \in FlaskJobIds |-> "none"]
    /\ temp_dir = [f \in TempNames |-> 0]
    /\ dir_exists = FALSE
    /\ needs = [j \in FlaskJobIds |-> {}]
    /\ response = "none"
    /\ req = NoRequest
    /\ observed = {}

\* the Flask app is not running
FlaskIdle ==
    /\ jobs = <<>>
    /\ wpc = [j \in FlaskJobIds |-> "off"]
    /\ temp_dir = [f \in TempNames |-> 0]
    /\ dir_exists = FALSE
    /\ needs = [j \in FlaskJobIds |-> {}]
    /\ response = "none"
    /\ req = NoRequest
    /\ observed = {}

Processing == {j \in DOMAIN jobs : jobs[j].status = "processing"}

\* an except branch that also resets the progress
JobErrorMutant(j, msg) ==
    /\ jobs' = [jobs EXCEPT ![j].status = "error", ![j].error = msg,
                            ![j].progress = 0]
    /\ wpc' = [wpc EXCEPT ![j] = "done"]

\* the except branch of generate_video_async
JobError(j, msg) ==
    /\ jobs' = [jobs EXCEPT ![j].status = "error", ![j].error = msg]
    /\ wpc' = [wpc EXCEPT ![j] = "done"]

\* POST /generate
Generate ==
    /\ \A j \in FlaskJobIds : wpc[j] # "off"
    /\ \E blank \in BOOLEAN :
          IF blank
          THEN /\ response' = "400"
               /\ UNCHANGED <<jobs, wpc>>
          ELSE /\ Len(jobs) < MaxFlaskJobs
               /\ LET job_id == Len(jobs) + 1
                  IN  /\ jobs' = Append(jobs, VideoJob(job_id))
                      /\ wpc' = [wpc EXCEPT ![job_id] = "start"]
                      /\ response' = "job_id"
    /\ UNCHANGED <<temp_dir, dir_exists, needs>>
    /\ UNCHANGED <<req, observed>>
    /\ UNCHANGED <<tvars, jvars, gvars, rvars, evars, cvars>>

\* job.status = "processing"
WorkerStart(j) ==
    /\ wpc[j] = "start"
    /\ jobs' = [jobs EXCEPT ![j].status = "processing", ![j].progress = 5]
    /\ wpc' = [wpc EXCEPT ![j] = "parse"]
    /\ UNCHANGED <<temp_dir, dir_exists, needs, response>>
    /\ UNCHANGED <<req, observed>>
    /\ UNCHANGED <<tvars, jvars, gvars, rvars, evars, cvars>>

\* parse_script; no segments raises ValueError
WorkerParse(j) ==
    /\ wpc[j] = "parse"
    /\ \E segments \in BOOLEAN :
          IF segments
          THEN /\ jobs' = [jobs EXCEPT ![j].progress = 10]
               /\ wpc' = [wpc EXCEPT ![j] = "init"]
          ELSE JobError(j, "no_content")
    /\ UNCHANGED <<temp_dir, dir_exists, needs, response>>
    /\ UNCHANGED <<req, observed>>
    /\ UNCHANGED <<tvars, jvars, gvars, rvars, evars, cvars>>

\* VideoGenerator(...) makes the temp directory; fetch_video_info
WorkerInit(j) ==
    /\ wpc[j] = "init"
    /\ dir_exists' = TRUE
    /\ jobs' = [jobs EXCEPT ![j].progress = 40]
    /\ wpc' = [wpc EXCEPT ![j] = "audio"]
    /\ UNCHANGED <<temp_dir, needs, response>>
    /\ UNCHANGED <<req, observed>>
    /\ UNCHANGED <<tvars, jvars, gvars, rvars, evars, cvars>>

\* generate_video, Step 2: the narration is written into the temp directory
WorkerAudio(j) ==
    /\ wpc[j] = "audio"
    /\ \E tts \in BOOLEAN :
          IF tts /\ dir_exists
          THEN /\ temp_dir' = [temp_dir EXCEPT ![Narration(j)] = j]
               /\ needs' = [needs EXCEPT ![j] = @ \cup {Narration(j)}]
               /\ wpc' = [wpc EXCEPT ![j] = "download"]
               /\ UNCHANGED jobs
          ELSE /\ JobError(j, "audio")
               /\ UNCHANGED <<temp_dir, needs>>
    /\ UNCHANGED <<dir_exists, response>>
    /\ UNCHANGED <<req, observed>>
    /\ UNCHANGED <<tvars, jvars, gvars, rvars, evars, cvars>>

\* generate_video, Step 4: fetch_videos downloads stock_video_<i>.mp4
WorkerDownload(j) ==
    /\ wpc[j] = "download"
    /\ \E n \in 0..MaxKeywords :
          LET got == IF dir_exists THEN {StockVideo(i) : i \in 0..(n - 1)} ELSE {}
          IN  /\ temp_dir' = [f \in TempNames |-> IF f \in got THEN j ELSE temp_dir[f]]
              /\ needs' = [needs EXCEPT ![j] = @ \cup got]
    /\ wpc' = [wpc EXCEPT ![j] = "render"]
    /\ UNCHANGED <<jobs, dir_exists, response>>
    /\ UNCHANGED <<req, observed>>
    /\ UNCHANGED <<tvars, jvars, gvars, rvars, evars, cvars>>

\* generate_video, Steps 5 to 9: the clips and the narration are read until
\* the encoder is done, then closed
WorkerRender(j) ==
    /\ wpc[j] = "render"
    /\ \E encoded \in BOOLEAN :
          IF encoded
          THEN /\ jobs' = [jobs EXCEPT ![j].progress = 95]
               /\ wpc' = [wpc EXCEPT ![j] = "cleanup"]
          ELSE JobError(j, "encoder")
    /\ needs' = [needs EXCEPT ![j] = {}]
    /\ UNCHANGED <<temp_dir, dir_exists, response>>
    /\ UNCHANGED <<req, observed>>
    /\ UNCHANGED <<tvars, jvars, gvars, rvars, evars, cvars>>

\* generator.cleanup_temp_files(): rmtree of the temp directory, or after
\* three failures the unlink of every file that is not locked
WorkerCleanup(j) ==
    /\ wpc[j] = "cleanup"
    /\ \E locked \in SUBSET {f \in TempNames : temp_dir[f] # 0} :
          /\ temp_dir' = [f \in TempNames |-> IF f \in locked THEN temp_dir[f] ELSE 0]
          /\ dir_exists' = (dir_exists /\ locked # {})
    /\ wpc' = [wpc EXCEPT ![j] = WriteSteps[1]]
    /\ UNCHANGED <<jobs, needs, response>>
    /\ UNCHANGED <<req, observed>>
    /\ UNCHANGED <<tvars, jvars, gvars, rvars, evars, cvars>>

\* the assignments that end a successful run, one attribute write each:
\* job.output_file = output_filename; job.status = "completed"; job.progress = 100
WorkerWrite(j) ==
    /\ \E k \in 1..Len(WriteSteps) :
          /\ wpc[j] = WriteSteps[k]
          /\ jobs' = [jobs EXCEPT ![j] = Written(@, CompletionOrder[k])]
          /\ wpc' = [wpc EXCEPT ![j] = IF k < Len(WriteSteps) THEN WriteSteps[k + 1]
                                       ELSE "done"]
    /\ UNCHANGED <<temp_dir, dir_exists, needs, response, req, observed>>
    /\ UNCHANGED <<tvars, jvars, gvars, rvars, evars, cvars>>

\* GET /status/<job_id> or /download/<job_id> arrives; an unknown id is a 404
Request ==
    /\ \A j \in FlaskJobIds : wpc[j] # "off"
    /\ req.at = "idle"
    /\ \E route \in {"status", "download"}, j \in FlaskJobIds :
          req' = IF j \in DOMAIN jobs
                 THEN [route |-> route, job_id |-> j, at |-> "read", status |-> "unread",
                       answer |-> Response("none")]
                 ELSE [route |-> route, job_id |-> j, at |-> "idle", status |-> "unread",
                       answer |-> Response("404")]
    /\ UNCHANGED <<jobs, wpc, temp_dir, dir_exists, needs, response, observed>>
    /\ UNCHANGED <<tvars, jvars, gvars, rvars, evars, cvars>>

\* the handler reads job.status, the first attribute both handlers read
ReadStatus ==
    /\ req.at = "read"
    /\ req' = [req EXCEPT !.status = jobs[req.job_id].status, !.at = "answer"]
    /\ observed' = IF jobs[req.job_id].status = "completed"
                   THEN observed \cup {req.job_id}
                   ELSE observed
    /\ UNCHANGED <<jobs, wpc, temp_dir, dir_exists, needs, response>>
    /\ UNCHANGED <<tvars, jvars, gvars, rvars, evars, cvars>>

\* the handler reads job.output_file and answers
Respond ==
    /\ req.at = "answer"
    /\ req' = [req EXCEPT !.at = "idle",
                          !.answer = Answer(req.route, req.status,
                                            jobs[req.job_id].output_file)]
    /\ UNCHANGED <<jobs, wpc, temp_dir, dir_exists, needs, response, observed>>
    /\ UNCHANGED <<tvars, jvars, gvars, rvars, evars, cvars>>

FlaskNext ==
    \/ Generate
    \/ \E j \in FlaskJobIds :
          \/ WorkerStart(j) \/ WorkerParse(j) \/ WorkerInit(j) \/ WorkerAudio(j)
          \/ WorkerDownload(j) \/ WorkerRender(j) \/ WorkerCleanup(j)
          \/ WorkerWrite(j)

\* one job and the requests that poll it
PollNext ==
    \/ jobs = <<>> /\ Generate
    \/ Request \/ ReadStatus \/ Respond
    \/ \E j \in FlaskJobIds :
          \/ WorkerStart(j) \/ WorkerParse(j) \/ WorkerInit(j) \/ WorkerAudio(j)
          \/ WorkerDownload(j) \/ WorkerRender(j) \/ WorkerCleanup(j)
          \/ WorkerWrite(j)

(***************************************************************************)
(* VideoGenerator.resize_video_to_fullscreen                               *)
(*                                                                         *)
(* The scale factor and the scaled sizes are Python floats (IEEE 754       *)
(* doubles).  The exact product clip_w * scale is computed here.  Where it *)
(* is a whole number the double product y * (t / x) can fall just below    *)
(* it, and int() then gives one less; FloatFallsBelow lists the operands   *)
(* <<y, t, x>> among the modelled sizes for which it does.  A product that *)
(* is not whole is further from the next integers than any rounding error, *)
(* and int() gives its floor.                                              *)
(***************************************************************************)
VIDEO_WIDTH == 1280

VIDEO_HEIGHT == 720

ClipWidths == {320, 426, 480, 638, 640, 720, 1080, 1280, 1920, 2560}

ClipHeights == {240, 350, 360, 480, 720, 1080, 1280, 1440, 1920, 2160}

\* 350 * (720 / 350) and 638 * (1280 / 638) are 719.99.. and 1279.99.. as doubles
FloatFallsBelow == {<<350, 720, 350>>, <<638, 1280, 638>>}

\* scale = max(scale_w, scale_h), as the operands <<t, x>> of the quotient t / x
ScaleOperands(w, h) ==
    IF RLe(Rat(VIDEO_HEIGHT, h), Rat(VIDEO_WIDTH, w))
    THEN <<VIDEO_WIDTH, w>>
    ELSE <<VIDEO_HEIGHT, h>>

ScaleFactor(w, h) == Rat(ScaleOperands(w, h)[1], ScaleOperands(w, h)[2])

\* int(y * scale) with scale = t / x
IntOfProduct(y, t, x) ==
    LET exact == RMul(Rat(y, 1), Rat(t, x))
    IN  IF <<y, t, x>> \in FloatFallsBelow THEN RFloor(exact) - 1 ELSE RFloor(exact)

\* x1 = (new_w - target_w) // 2; crop(x1=x1, x2=x1 + target_w)
CropTo(new, target) == [from |-> (new - target) \div 2, size |-> target]

NoCrop == [from |-> 0, size |-> 0]

FinalResizeMutant(size) == size

\* if clip.w != target_w or clip.h != target_h: resize(newsize=(target_w, target_h))
FinalResize(size) ==
    IF size[1] # VIDEO_WIDTH \/ size[2] # VIDEO_HEIGHT
    THEN <<VIDEO_WIDTH, VIDEO_HEIGHT>>
    ELSE size

ResizeInit ==
    /\ r_clip \in ClipWidths \X ClipHeights
    /\ r_scale = Zero
    /\ r_scaled = <<0, 0>>
    /\ r_size = r_clip
    /\ r_crop_x = NoCrop
    /\ r_crop_y = NoCrop
    /\ rpc = "scale"

\* resize_video_to_fullscreen is not running
ResizeIdle ==
    /\ r_clip = <<VIDEO_WIDTH, VIDEO_HEIGHT>>
    /\ r_scale = Zero
    /\ r_scaled = <<0, 0>>
    /\ r_size = r_clip
    /\ r_crop_x = NoCrop
    /\ r_crop_y = NoCrop
    /\ rpc = "off"

\* scale to fill: clip.resize(newsize=(new_w, new_h))
ResizeScale ==
    /\ rpc = "scale"
    /\ r_scale' = ScaleFactor(r_clip[1], r_clip[2])
    /\ LET so    == ScaleOperands(r_clip[1], r_clip[2])
           new_w == IntOfProduct(r_clip[1], so[1], so[2])
           new_h == IntOfProduct(r_clip[2], so[1], so[2])
       IN  /\ r_scaled' = <<new_w, new_h>>
           /\ r_size' = <<new_w, new_h>>
    /\ rpc' = "crop_w"
    /\ UNCHANGED <<r_clip, r_crop_x, r_crop_y>>
    /\ UNCHANGED <<tvars, jvars, gvars, fvars, evars, cvars>>

\* if new_w > target_w: crop the width, centered
ResizeCropWidth ==
    /\ rpc = "crop_w"
    /\ IF r_scaled[1] > VIDEO_WIDTH
       THEN /\ r_crop_x' = CropTo(r_scaled[1], VIDEO_WIDTH)
            /\ r_size' = <<VIDEO_WIDTH, r_size[2]>>
       ELSE UNCHANGED <<r_crop_x, r_size>>
    /\ rpc' = "crop_h"
    /\ UNCHANGED <<r_clip, r_scale, r_scaled, r_crop_y>>
    /\ UNCHANGED <<tvars, jvars, gvars, fvars, evars, cvars>>

\* if new_h > target_h: crop the height, centered
ResizeCropHeight ==
    /\ rpc = "crop_h"
    /\ IF r_scaled[2] > VIDEO_HEIGHT
       THEN /\ r_crop_y' = CropTo(r_scaled[2], VIDEO_HEIGHT)
            /\ r_size' = <<r_size[1], VIDEO_HEIGHT>>
       ELSE UNCHANGED <<r_crop_y, r_size>>
    /\ rpc' = "final"
    /\ UNCHANGED <<r_clip, r_scale, r_scaled, r_crop_x>>
    /\ UNCHANGED <<tvars, jvars, gvars, fvars, evars, cvars>>

\* final safety resize and return
ResizeFinal ==
    /\ rpc = "final"
    /\ r_size' = FinalResize(r_size)
    /\ rpc' = "done"
    /\ UNCHANGED <<r_clip, r_scale, r_scaled, r_crop_x, r_crop_y>>
    /\ UNCHANGED <<tvars, jvars, gvars, fvars, evars, cvars>>

ResizeNext == ResizeScale \/ ResizeCropWidth \/ ResizeCropHeight \/ ResizeFinal

(***************************************************************************)
(* The callers of generate_video (app.py, gradio_app.py, main.py, run.py,  *)
(* batch_video_generator.py) from parse_script on, and the external calls  *)
(* a job makes: translation, narration synthesis and media fetch.          *)
(***************************************************************************)
MaxScriptLines == 3

EntryPoints == {"flask", "gradio", "main", "run", "batch"}

Languages == {"en", "hi"}

\* gradio and batch pass target_language=voice; the others leave the default "en"
EntryLanguages(e) == IF e \in {"gradio", "batch"} THEN Languages ELSE {"en"}

\* One line of a script text. head is the word the line starts with, if it is
\* one of Hook, Core, End (any case); sentences is what the line contributes
\* to the content: the text after the colon of a header line, the whole line
\* otherwise; long tells whether that text has more than 50 characters.
Line(head, sentences, long) == [head |-> head, sentences |-> sentences, long |-> long]

BlankLine == Line("none", <<>>, FALSE)

ScriptLines ==
    {BlankLine,                                       \* whitespace only
     Line("hook", <<>>, FALSE),                       \* Hook (0-2s):
     Line("core", <<"fix your sleep.">>, FALSE),      \* Core: Fix your sleep.
     Line("end", <<"endless nights.">>, FALSE),       \* Endless nights.
     Line("none", <<"fix your diet.">>, FALSE),       \* Fix your diet.
     Line("none", <<"you need no new mindset here at all today.",
                    "you need discipline right now.">>, TRUE)}

ScriptTexts == UNION {[1..n -> ScriptLines] : n \in 0..MaxScriptLines}

SegmentType(head) ==
    CASE head = "hook" -> "hook"
      [] head = "end"  -> "cta"
      [] OTHER         -> "core"

RECURSIVE Flatten(_)
Flatten(seqs) == IF seqs = <<>> THEN <<>> ELSE Head(seqs) \o Flatten(Tail(seqs))

\* split_into_display_lines without the test that skips an empty line
split_into_display_linesMutant(content) ==
    Flatten([k \in 1..Len(content) |->
                IF content[k].long
                THEN [n \in 1..Len(content[k].sentences) |-> <<content[k].sentences[n]>>]
                ELSE <<content[k].sentences>>])

\* split_into_display_lines: every stripped line that is not empty is one
\* display line, or one display line per sentence when it is long
split_into_display_lines(content) ==
    Flatten([k \in 1..Len(content) |->
                IF content[k].sentences = <<>> THEN <<>>
                ELSE IF content[k].long
                THEN [n \in 1..Len(content[k].sentences) |-> <<content[k].sentences[n]>>]
                ELSE <<content[k].sentences>>])

\* re.split(r'\n(?=Hook|Core|End)'): the section that starts at line i ends
\* before the next line that starts with one of the three words
SectionEnd(script_text, i) ==
    LET later == {k \in (i + 1)..Len(script_text) : script_text[k].head # "none"}
    IN  IF later = {} THEN Len(script_text)
        ELSE (CHOOSE k \in later : \A m \in later : k <= m) - 1

\* section.strip() and the removal of the header: the lines from the first
\* one that is not blank, or nothing
Content(section) ==
    LET inked == {k \in 1..Len(section) : section[k] # BlankLine}
    IN  IF inked = {} THEN <<>>
        ELSE SubSeq(section, CHOOSE k \in inked : \A m \in inked : k <= m,
                    Len(section))

\* the loop of parse_script from line i on; at is the line a segment starts at
RECURSIVE ParseFrom(_, _)
ParseFrom(script_text, i) ==
    IF i > Len(script_text) THEN <<>>
    ELSE LET end     == SectionEnd(script_text, i)
             content == Content(SubSeq(script_text, i, end))
             text    == Flatten([k \in 1..Len(content) |-> content[k].sentences])
         IN  (IF text = <<>> THEN <<>>
              ELSE <<[segment_type  |-> SegmentType(content[1].head),
                      text          |-> text,
                      display_lines |-> split_into_display_lines(content),
                      at            |-> i]>>)
             \o ParseFrom(script_text, end + 1)

\* parse_script: a section whose content is empty contributes no segment
parse_script(script_text) == ParseFrom(script_text, 1)

\* if not segments
NoSegmentsMutant(segments) == FALSE

NoSegments(segments) == segments = <<>>

\* get_full_narration_text: the segment texts joined, in English
get_full_narration_text(segments) ==
    [lang |-> "en", words |-> [i \in 1..Len(segments) |-> segments[i].text]]

NoText == [lang |-> "none", words |-> <<>>]

Call(fn, text, ok) == [fn |-> fn, text |-> text, ok |-> ok]

TranslationMethods == 3

\* Translator.translate: results[m] tells whether _translate_method<m> returns
\* a translation (otherwise it returns None); the methods are tried in order
translate(text, target, results) ==
    IF target = "en" \/ text.words = <<>>
    THEN [text |-> text, calls |-> {}]
    ELSE LET tried == {m \in 1..TranslationMethods :
                          \A k \in 1..(m - 1) : ~results[k]}
         IN  [text  |-> IF \E m \in 1..TranslationMethods : results[m]
                        THEN [text EXCEPT !.lang = target]
                        ELSE text,
              calls |-> {Call(<<"translate", m>>, text, results[m]) : m \in tried}]

\* AudioGenerator.generate_audio without the fallback: Edge TTS failing raises
generate_audioMutant(text, available, edge_ok, gtts_ok) ==
    IF available
    THEN [calls |-> {Call(<<"edge_tts", 0>>, text, edge_ok)}, ok |-> edge_ok]
    ELSE [calls |-> {Call(<<"gtts", 0>>, text, gtts_ok)}, ok |-> gtts_ok]

\* AudioGenerator.generate_audio: Edge TTS if the module is importable, gTTS
\* when it is not or when Edge TTS raised; a gTTS failure is raised
generate_audio(text, available, edge_ok, gtts_ok) ==
    IF available /\ edge_ok
    THEN [calls |-> {Call(<<"edge_tts", 0>>, text, TRUE)}, ok |-> TRUE]
    ELSE [calls |-> (IF available THEN {Call(<<"edge_tts", 0>>, text, FALSE)} ELSE {})
                       \cup {Call(<<"gtts", 0>>, text, gtts_ok)},
          ok    |-> gtts_ok]

MsgNoContent == <<"no", "valid", "content", "found", "in", "script">>
MsgNarration == <<"narration", "failed">>
MsgRender    == <<"render", "failed">>

\* how each caller tells its own caller that the job ended
Channel(e) ==
    CASE e = "flask"  -> "job.status"
      [] e = "gradio" -> "gr.Error"
      [] e = "main"   -> "exit status"
      [] e = "run"    -> "console"
      [] e = "batch"  -> "return value"

\* the message of the no-segments branch of each caller
NoContentMessage(e) == IF e \in {"gradio", "batch"} THEN MsgNoParse ELSE MsgNoContent

NoReport == [how |-> "none", status |-> "none", msg |-> <<>>]

ErrorReport(e, msg) == [how |-> Channel(e), status |-> "error", msg |-> msg]

DoneReport(e) == [how |-> Channel(e), status |-> "completed", msg |-> <<>>]

EntryInit ==
    /\ e_entry \in EntryPoints
    /\ e_language \in EntryLanguages(e_entry)
    /\ e_script \in ScriptTexts
    /\ e_segments = <<>>
    /\ e_text = NoText
    /\ e_calls = {}
    /\ e_report = NoReport
    /\ epc = "parse"

\* no caller is running
EntryIdle ==
    /\ e_entry = "main"
    /\ e_language = "en"
    /\ e_script = <<>>
    /\ e_segments = <<>>
    /\ e_text = NoText
    /\ e_calls = {}
    /\ e_report = NoReport
    /\ epc = "off"

\* segments = parse_script(script_text); if not segments: report and stop
EntryParse ==
    /\ epc = "parse"
    /\ e_segments' = parse_script(e_script)
    /\ IF NoSegments(e_segments')
       THEN /\ e_report' = ErrorReport(e_entry, NoContentMessage(e_entry))
            /\ epc' = "done"
       ELSE /\ epc' = IF e_entry = "flask" THEN "fetch_info" ELSE "translate"
            /\ UNCHANGED e_report
    /\ UNCHANGED <<e_entry, e_language, e_script, e_text, e_calls>>
    /\ UNCHANGED <<tvars, jvars, gvars, fvars, rvars, cvars>>

\* the Flask worker: stock_fetcher.fetch_video_info, which returns what it got
FetchVideoInfo ==
    /\ epc = "fetch_info"
    /\ \E ok \in BOOLEAN :
          e_calls' = e_calls \cup {Call(<<"fetch_video_info", 0>>, NoText, ok)}
    /\ epc' = "translate"
    /\ UNCHANGED <<e_entry, e_language, e_script, e_segments, e_text, e_report>>
    /\ UNCHANGED <<tvars, jvars, gvars, fvars, rvars, cvars>>

\* generate_video step 1: translated_text = translator.translate(full_text)
EntryTranslate ==
    /\ epc = "translate"
    /\ \E results \in [1..TranslationMethods -> BOOLEAN] :
          LET r == translate(get_full_narration_text(e_segments), e_language, results)
          IN  /\ e_text' = r.text
              /\ e_calls' = e_calls \cup r.calls
    /\ epc' = "narrate"
    /\ UNCHANGED <<e_entry, e_language, e_script, e_segments, e_report>>
    /\ UNCHANGED <<tvars, jvars, gvars, fvars, rvars, cvars>>

\* generate_video step 2: generate_audio(translated_text, ...); what it raises
\* leaves generate_video and the caller reports it
EntryNarrate ==
    /\ epc = "narrate"
    /\ \E available, edge_ok, gtts_ok \in BOOLEAN :
          LET r == generate_audio(e_text, available, edge_ok, gtts_ok)
          IN  /\ e_calls' = e_calls \cup r.calls
              /\ IF r.ok
                 THEN /\ epc' = "fetch"
                      /\ UNCHANGED e_report
                 ELSE /\ epc' = "done"
                      /\ e_report' = ErrorReport(e_entry, MsgNarration)
    /\ UNCHANGED <<e_entry, e_language, e_script, e_segments, e_text>>
    /\ UNCHANGED <<tvars, jvars, gvars, fvars, rvars, cvars>>

\* generate_video step 4: the fetchers return the clips they got, possibly
\* none, and the animated background is used instead
EntryFetch ==
    /\ epc = "fetch"
    /\ \E ok \in BOOLEAN :
          e_calls' = e_calls \cup {Call(<<"fetch", 0>>, NoText, ok)}
    /\ epc' = "render"
    /\ UNCHANGED <<e_entry, e_language, e_script, e_segments, e_text, e_report>>
    /\ UNCHANGED <<tvars, jvars, gvars, fvars, rvars, cvars>>

\* the rest of generate_video: local work that returns or raises
EntryRender ==
    /\ epc = "render"
    /\ \E ok \in BOOLEAN :
          e_report' = IF ok THEN DoneReport(e_entry)
                      ELSE ErrorReport(e_entry, MsgRender)
    /\ epc' = "done"
    /\ UNCHANGED <<e_entry, e_language, e_script, e_segments, e_text, e_calls>>
    /\ UNCHANGED <<tvars, jvars, gvars, fvars, rvars, cvars>>

EntryNext ==
    EntryParse \/ FetchVideoInfo \/ EntryTranslate \/ EntryNarrate \/ EntryFetch
        \/ EntryRender

(***************************************************************************)
(* create_subtitle_caption: the caption box of one caption line.           *)
(***************************************************************************)

MaxPhrases == 3

\* font_size = 32 for a hook, 30 for a cta, 28 otherwise
CaptionFontSizes == {28, 30, 32}

\* n words of k characters each
Phrase(n, k) == [i \in 1..n |-> k]

\* a short word, a long unspaced token, a sentence of 8 words, one of 20 words
Phrases == {Phrase(1, 4), Phrase(1, 90), Phrase(8, 5), Phrase(20, 8)}

CaptionTexts ==
    {Flatten(ps) : ps \in UNION {[1..n -> Phrases] : n \in 0..MaxPhrases}}

\* pixels per character of the font that ImageFont loaded
GlyphWidths == {10, 17, 24}

\* max_text_width = int(VIDEO_WIDTH * 0.85)
max_text_width == RFloor(RMul(Rat(VIDEO_WIDTH, 1), Rat(85, 100)))

\* max_chars = max(15, int(max_text_width / (font_size * 0.55)))
max_chars(font_size) ==
    LET fit == RFloor(RDiv(Rat(max_text_width, 1),
                           RMul(Rat(font_size, 1), Rat(55, 100))))
    IN  IF fit < 15 THEN 15 ELSE fit

\* textwrap.wrap(text, width): words are packed greedily with one space
\* between them, a word longer than the width is cut to fill the line
RECURSIVE WrapFrom(_, _, _)
WrapFrom(words, cur, width) ==
    IF words = <<>> THEN (IF cur > 0 THEN <<cur>> ELSE <<>>)
    ELSE LET w == Head(words)
         IN  IF cur = 0
             THEN IF w <= width
                  THEN WrapFrom(Tail(words), w, width)
                  ELSE <<width>> \o WrapFrom(<<w - width>> \o Tail(words), 0, width)
             ELSE IF cur + 1 + w <= width
                  THEN WrapFrom(Tail(words), cur + 1 + w, width)
                  ELSE IF w > width /\ cur < width
                       THEN <<width>>
                            \o WrapFrom(<<w - (width - cur - 1)>> \o Tail(words),
                                        0, width)
                       ELSE <<cur>> \o WrapFrom(words, 0, width)

Wrap(words, width) == WrapFrom(words, 0, width)

RECURSIVE Longest(_)
Longest(ls) ==
    IF ls = <<>> THEN 0
    ELSE LET rest == Longest(Tail(ls))
         IN  IF Head(ls) > rest THEN Head(ls) ELSE rest

\* box_height = len(wrapped_lines) * font_size * 1.3 + padding * 2
box_height(n, font_size) ==
    RAdd(RMul(Rat(n * font_size, 1), Rat(13, 10)), Rat(2 * 25, 1))

\* start_y = max(VIDEO_HEIGHT - box_height - bottom_margin, int(VIDEO_HEIGHT * 0.5))
start_y(height) ==
    RMax(RSub(Rat(VIDEO_HEIGHT - 80, 1), height),
         Rat(RFloor(RMul(Rat(VIDEO_HEIGHT, 1), Rat(5, 10))), 1))

\* box_width = min(max_line_width + padding * 2, VIDEO_WIDTH - 40)
box_width(max_line_width) ==
    IF max_line_width + 2 * 25 < VIDEO_WIDTH - 40
    THEN max_line_width + 2 * 25
    ELSE VIDEO_WIDTH - 40

\* box_x = max(20, (VIDEO_WIDTH - box_width) // 2)
box_x(width) ==
    LET centred == (VIDEO_WIDTH - width) \div 2
    IN  IF centred < 20 THEN 20 ELSE centred

NoBox == [x1 |-> Zero, y1 |-> Zero, x2 |-> Zero, y2 |-> Zero, drawn |-> FALSE]

\* (box_x, start_y, box_x + box_width, start_y + box_height)
CaptionBox(wrapped, font_size, glyph) ==
    LET height == box_height(Len(wrapped), font_size)
        width  == box_width(Longest(wrapped) * glyph)
        x      == box_x(width)
        y      == start_y(height)
    IN  [x1 |-> Rat(x, 1), y1 |-> y, x2 |-> Rat(x + width, 1),
         y2 |-> RAdd(y, height), drawn |-> TRUE]

CaptionInit ==
    /\ c_text \in CaptionTexts
    /\ c_font_size \in CaptionFontSizes
    /\ c_glyph \in GlyphWidths
    /\ c_lines = <<>>
    /\ c_box = NoBox
    /\ cpc = "wrap"

\* create_subtitle_caption is not running
CaptionIdle ==
    /\ c_text = <<>>
    /\ c_font_size = 28
    /\ c_glyph = 17
    /\ c_lines = <<>>
    /\ c_box = NoBox
    /\ cpc = "off"

\* wrapped_lines = textwrap.wrap(text.upper(), width=max_chars)
CaptionWrap ==
    /\ cpc = "wrap"
    /\ c_lines' = Wrap(c_text, max_chars(c_font_size))
    /\ cpc' = "box"
    /\ UNCHANGED <<c_text, c_font_size, c_glyph, c_box>>
    /\ UNCHANGED <<tvars, jvars, gvars, fvars, rvars, evars>>

\* if not wrapped_lines: return np.array(img)
CaptionEmpty ==
    /\ cpc = "box"
    /\ c_lines = <<>>
    /\ cpc' = "done"
    /\ UNCHANGED <<c_text, c_font_size, c_glyph, c_lines, c_box>>
    /\ UNCHANGED <<tvars, jvars, gvars, fvars, rvars, evars>>

\* the box is placed and drawn, then the lines are drawn over it
CaptionDraw ==
    /\ cpc = "box"
    /\ c_lines # <<>>
    /\ c_box' = CaptionBox(c_lines, c_font_size, c_glyph)
    /\ cpc' = "done"
    /\ UNCHANGED <<c_text, c_font_size, c_glyph, c_lines>>
    /\ UNCHANGED <<tvars, jvars, gvars, fvars, rvars, evars>>

CaptionNext == CaptionWrap \/ CaptionEmpty \/ CaptionDraw


\* one generate_video run under one of its callers
Init == TimingIdle /\ JobInit /\ GradioIdle /\ FlaskIdle /\ ResizeIdle /\ EntryIdle /\ CaptionIdle

Spec == Init /\ [][JobNext]_vars

\* one call of _calculate_line_timings
InitTiming == TimingInit /\ JobIdle /\ GradioIdle /\ FlaskIdle /\ ResizeIdle /\ EntryIdle /\ CaptionIdle

SpecTiming == InitTiming /\ [][TimingNext]_vars

\* one session of the Gradio app
InitGradio == TimingIdle /\ JobIdle /\ GradioInit /\ FlaskIdle /\ ResizeIdle /\ EntryIdle /\ CaptionIdle

SpecGradio == InitGradio /\ [][GradioNext]_vars

\* the Flask app serving requests
InitFlask == TimingIdle /\ JobIdle /\ GradioIdle /\ FlaskInit /\ ResizeIdle /\ EntryIdle /\ CaptionIdle

SpecFlask == InitFlask /\ [][FlaskNext]_vars

\* the Flask app serving one job and the pollers of that job
InitPoll == TimingIdle /\ JobIdle /\ GradioIdle /\ FlaskInit /\ ResizeIdle /\ EntryIdle /\ CaptionIdle

SpecPoll == InitPoll /\ [][PollNext]_vars

\* one call of resize_video_to_fullscreen
InitResize == TimingIdle /\ JobIdle /\ GradioIdle /\ FlaskIdle /\ ResizeInit /\ EntryIdle /\ CaptionIdle

SpecResize == InitResize /\ [][ResizeNext]_vars

\* one job under one of the five callers
InitEntry == TimingIdle /\ JobIdle /\ GradioIdle /\ FlaskIdle /\ ResizeIdle /\ EntryInit /\ CaptionIdle

SpecEntry == InitEntry /\ [][EntryNext]_vars

\* one call of create_subtitle_caption
InitCaption ==
    TimingIdle /\ JobIdle /\ GradioIdle /\ FlaskIdle /\ ResizeIdle /\ EntryIdle
        /\ CaptionInit

SpecCaption == InitCaption /\ [][CaptionNext]_vars

(***************************************************************************)
(* C1: for a non-empty list of lines with at least one word in total and   *)
(* total_duration > 0, the returned sequence is non-empty, starts at 0,    *)
(* is contiguous, ends exactly at total_duration, and every interval has   *)
(* end > start.                                                            *)
(***************************************************************************)
TimelineCoverage ==
    (tpc = "done" /\ TotalWords(lines) > 0) =>
        /\ timings # <<>>
        /\ timings[1].start = Zero
        /\ \A i \in 1..(Len(timings) - 1) : timings[i].end = timings[i + 1].start
        /\ timings[Len(timings)].end = total_duration
        /\ \A i \in 1..Len(timings) : RLt(timings[i].start, timings[i].end)

\* a returned timeline in which a trailing line was dropped and one line was clamped
TimelineCoverageWitness ==
    /\ tpc = "done"
    /\ Len(lines) = 3
    /\ Len(timings) = 2
    /\ RLt(RSub(timings[2].end, timings[2].start), MinLineSeconds)


(***************************************************************************)
(* C2: during finalization a reader of the final output path sees either   *)
(* the previous complete output or the new complete output; the previous   *)
(* output is never removed before the new one is in place and the final    *)
(* path never holds a partial file.  Stated for output names whose temp    *)
(* path differs from the final path.                                       *)
(***************************************************************************)
AtomicOutput ==
    TempOutput(output_filename) # OutputPath(output_filename) =>
        fs[OutputPath(output_filename)] \in {prev_output, "complete"}

(***************************************************************************)
(* C3: the background track handed to the compositor has duration exactly  *)
(* the narration duration, for every list of clips; when no clip was       *)
(* loaded the track is exactly one procedural clip of that duration, and   *)
(* no failure of the job originates in the background stage.               *)
(***************************************************************************)
TrackDurationExact ==
    /\ pc = "render" =>
          /\ RLt(Zero, audio_duration)
          /\ bg.duration = audio_duration
          /\ handles.clips = 0 => bg.segments = <<ProceduralClip(audio_duration)>>
    /\ raised \in {"none", "no_content", "audio", "encoder", "copy"}

\* three clips were fetched, none opened, and the track is the procedural clip
TrackDurationExactWitness ==
    /\ pc = "render"
    /\ video_paths = 3
    /\ handles.clips = 0
    /\ bg.segments = <<ProceduralClip(audio_duration)>>

(***************************************************************************)
(* C4: over one generate_video run the fractions passed to the progress    *)
(* callback are non-decreasing and every one lies in [0, 1].               *)
(***************************************************************************)
ProgressMonotone ==
    LET seq == <<prev_progress>> \o [i \in 1..Len(emitted) |-> emitted[i].pct]
    IN  /\ \A i \in 1..Len(seq) : RLe(Zero, seq[i]) /\ RLe(seq[i], One)
        /\ \A i \in 1..(Len(seq) - 1) : RLe(seq[i], seq[i + 1])

\* an audio-sized pass after a finished frame pass: its 50% would map below
\* the 86% already reported
ProgressMonotoneWitness ==
    /\ pc = "encoding"
    /\ logger.render_pass = 1
    /\ logger.current_total = 2
    /\ logger.last_reported_pct = 50
    /\ prev_progress = Pct(86)
    /\ emitted # <<>>

(***************************************************************************)
(* C6: whenever a job of the Flask worker or the CLI ends, completed or    *)
(* failed, its resources have been released: the temp directory is empty,  *)
(* the partial _encoding output and the temp audio file are gone and the   *)
(* clip and audio handles are closed.                                      *)
(***************************************************************************)
ResourcesReleased ==
    (pc = "ended" /\ entry \in {"flask", "main", "run"}) =>
        /\ temp_files = {}
        /\ handles = NoHandles
        /\ TempOutput(output_filename) # OutputPath(output_filename) =>
              fs[TempOutput(output_filename)] = "absent"
        /\ TempAudiofile(output_filename) # OutputPath(output_filename) =>
              fs[TempAudiofile(output_filename)] = "absent"

(***************************************************************************)
(* C10 as stated: when N clips are supplied and one fails to open, each    *)
(* remaining clip still receives total_duration / N and the slice of the   *)
(* failed clip is filled with procedural background.                       *)
(***************************************************************************)
FailedClipKeepsSliceCount ==
    (pc = "render" /\ video_paths >= 2 /\ handles.clips = video_paths - 1) =>
        /\ \A i \in 1..Len(bg.segments) :
              bg.segments[i].src # "procedural" =>
                 bg.segments[i].duration = RDiv(audio_duration, Rat(video_paths, 1))
        /\ \E i \in 1..Len(bg.segments) : bg.segments[i].src = "procedural"

(***************************************************************************)
(* C10 amended: when some of the supplied clips fail to open and at least  *)
(* one opens, the job goes on, the slice count is the number of clips that *)
(* opened (each receives total_duration / that number), no procedural      *)
(* background is inserted and the track still lasts total_duration.        *)
(***************************************************************************)
FailedClipReducesSliceCount ==
    (pc = "render" /\ handles.clips >= 1 /\ handles.clips < video_paths) =>
        /\ Len(bg.segments) = handles.clips
        /\ \A i \in 1..Len(bg.segments) :
              /\ bg.segments[i].src # "procedural"
              /\ bg.segments[i].duration =
                    RDiv(audio_duration, Rat(handles.clips, 1))
        /\ bg.duration = audio_duration

\* three clips supplied, one failed, two slices arranged
FailedClipReducesSliceCountWitness ==
    /\ pc = "render"
    /\ video_paths = 3
    /\ handles.clips = 2
    /\ Len(bg.segments) = 2


(***************************************************************************)
(* C5: when the cancellation flag is set at some moment after a Gradio job *)
(* has started, the job ends with a cancellation-tagged error, which is    *)
(* distinguishable from every other failure, and it never completes.       *)
(***************************************************************************)
CancelledMidRun ==
    (gpc = "idle" /\ g_outcome # "none" /\ requested_in_job) =>
        g_outcome = "cancelled"

(***************************************************************************)
(* C7: at any time at most one generation job has status "processing".     *)
(***************************************************************************)
AtMostOneProcessing == Cardinality(Processing) <= 1

(***************************************************************************)
(* C8: every temp file that a processing job wrote and still reads is      *)
(* present and still holds what that job wrote: no other job has deleted   *)
(* it or written the same file name.                                       *)
(***************************************************************************)
TempDirOwnership ==
    \A j \in Processing : \A f \in needs[j] : temp_dir[f] = j

(***************************************************************************)
(* C9: the flag is cleared when a handler run begins and stays clear until *)
(* request_cancel runs during that run; a run ends cancelled only if       *)
(* request_cancel ran after its own reset_cancel.                          *)
(***************************************************************************)
NoCancellationLeak ==
    /\ (gpc \notin {"idle", "off"} /\ ~requested_in_job) => ~cancel_flag
    /\ g_outcome = "cancelled" => requested_in_job

\* a second run entered with the flag still set by an earlier request has
\* passed every is_cancelled() check
NoCancellationLeakWitness ==
    /\ g_jobs = 2
    /\ flag_at_start
    /\ gpc = "call"
    /\ ~requested_in_job
    /\ ~cancel_flag


FillInvariant ==
    /\ rpc \in {"crop_w", "crop_h", "final", "done"} =>
          /\ r_scale = RMax(Rat(VIDEO_WIDTH, r_clip[1]), Rat(VIDEO_HEIGHT, r_clip[2]))
          /\ r_scaled[1] >= VIDEO_WIDTH
          /\ r_scaled[2] >= VIDEO_HEIGHT
    /\ rpc = "done" => r_size = <<VIDEO_WIDTH, VIDEO_HEIGHT>>

(***************************************************************************)
(* C12 amended: the uniform scale by max(target_w / w, target_h / h),      *)
(* truncated to whole pixels, makes each scaled dimension at least the     *)
(* target minus one pixel; a dimension above the target is center-cropped  *)
(* to it from inside the scaled picture, a dimension one pixel short is    *)
(* stretched by the final resize, and the returned clip is exactly         *)
(* (target_w, target_h): never smaller, never padded.                      *)
(***************************************************************************)
FillExactSize ==
    /\ rpc \in {"crop_w", "crop_h", "final", "done"} =>
          /\ r_scale = RMax(Rat(VIDEO_WIDTH, r_clip[1]), Rat(VIDEO_HEIGHT, r_clip[2]))
          /\ r_scaled[1] >= VIDEO_WIDTH - 1
          /\ r_scaled[2] >= VIDEO_HEIGHT - 1
    /\ rpc \in {"final", "done"} =>
          /\ (r_scaled[1] > VIDEO_WIDTH) = (r_crop_x # NoCrop)
          /\ (r_scaled[2] > VIDEO_HEIGHT) = (r_crop_y # NoCrop)
          /\ r_crop_x # NoCrop =>
                /\ r_crop_x.from >= 0
                /\ r_crop_x.from + r_crop_x.size <= r_scaled[1]
                /\ r_scaled[1] - VIDEO_WIDTH - 2 * r_crop_x.from \in {0, 1}
          /\ r_crop_y # NoCrop =>
                /\ r_crop_y.from >= 0
                /\ r_crop_y.from + r_crop_y.size <= r_scaled[2]
                /\ r_scaled[2] - VIDEO_HEIGHT - 2 * r_crop_y.from \in {0, 1}
    /\ rpc = "done" => r_size = <<VIDEO_WIDTH, VIDEO_HEIGHT>>

\* a 638 x 480 clip: the scaled width came out one pixel short, the height
\* was cropped and the final resize gave the exact size
FillExactSizeWitness ==
    /\ rpc = "done"
    /\ r_clip = <<638, 480>>
    /\ r_scaled[1] = VIDEO_WIDTH - 1
    /\ r_crop_y # NoCrop
    /\ r_size = <<VIDEO_WIDTH, VIDEO_HEIGHT>>


(***************************************************************************)
(* C13: in the sequence built by _calculate_line_timings every interval    *)
(* other than the last emitted one lasts at least 1.5 seconds; only the    *)
(* last one may be shorter.                                                *)
(***************************************************************************)
MinimumReadability ==
    tpc \in {"loop", "done"} =>
        \A i \in 1..(Len(timings) - 1) :
            RLe(Rat(3, 2), RSub(timings[i].end, timings[i].start))

\* three intervals returned: the last one is below the floor
MinimumReadabilityWitness ==
    /\ tpc = "done"
    /\ Len(timings) = 3
    /\ RLt(RSub(timings[3].end, timings[3].start), Rat(3, 2))
    /\ RLt(Zero, RSub(timings[3].end, timings[3].start))


(***************************************************************************)
(* C14: once the captions are prepared the timeline holds exactly one      *)
(* interval per display line, in display-line order, so as many captions   *)
(* are rendered as there are display lines.                                *)
(***************************************************************************)
EachLineBecomesACaption ==
    pc \in {"custom", "source", "fallback", "arrange", "render"} =>
        /\ Len(line_timings) = Len(script)
        /\ \A i \in 1..Len(line_timings) : line_timings[i].line = i


DistinctTempPath ==
    pc = "encoding" =>
        /\ TempOutput(output_filename) # OutputPath(output_filename)
        /\ fs[OutputPath(output_filename)] = prev_output


(***************************************************************************)
(* C17: the temp-to-final move is attempted at most MoveAttempts times     *)
(* and no failure of the delete or of the rename ends the job in an error: *)
(* a job whose temp path differs from its final path never raises out of   *)
(* the finalization.                                                       *)
(***************************************************************************)
ContentionNeverFatal ==
    /\ attempt < MoveAttempts
    /\ TempOutput(output_filename) # OutputPath(output_filename) => raised # "copy"


(***************************************************************************)
(* C18: when the encoder raises, the job ends in an error and the final    *)
(* output path still holds what it held before the job: nothing the        *)
(* encoder wrote is moved or copied there.                                 *)
(***************************************************************************)
EncodingFailureNeverPromoted ==
    raised = "encoder" =>
        /\ pc \in {"raised", "cleanup", "ended"}
        /\ pc = "ended" => outcome = "error"
        /\ fs[OutputPath(output_filename)] = prev_output


(***************************************************************************)
(* C19: when parse_script returns no segments, each of the five callers    *)
(* ends the job by reporting its no-content error, and no translation,     *)
(* narration or media-fetch call has been made for the job.                *)
(***************************************************************************)
FatalInput ==
    (epc \notin {"off", "parse"} /\ e_segments = <<>>) =>
        /\ epc = "done"
        /\ e_report = ErrorReport(e_entry, NoContentMessage(e_entry))
        /\ e_calls = {}

FatalInputWitness ==
    /\ epc = "done"
    /\ e_entry = "batch"
    /\ Len(e_script) > 0
    /\ e_segments = <<>>
    /\ e_report.status = "error"

(***************************************************************************)
(* C20: no failure of a single external call ends the job in an error.     *)
(* When the three translation methods all fail the text handed on is the   *)
(* original text; when Edge TTS fails gTTS is invoked for the same text;   *)
(* and a job with content reports an error from its external calls only   *)
(* when the gTTS call failed.                                              *)
(***************************************************************************)
ProviderDegradation ==
    /\ (\A m \in 1..TranslationMethods :
            Call(<<"translate", m>>, get_full_narration_text(e_segments), FALSE)
                \in e_calls)
          => e_text = get_full_narration_text(e_segments)
    /\ \A c \in e_calls :
          (c.fn = <<"edge_tts", 0>> /\ ~c.ok) =>
              \E d \in e_calls : d.fn = <<"gtts", 0>> /\ d.text = c.text
    /\ (e_report.status = "error" /\ e_segments # <<>> /\ e_report.msg # MsgRender)
          => \E d \in e_calls : d.fn = <<"gtts", 0>> /\ ~d.ok

ProviderDegradationWitness ==
    /\ epc = "done"
    /\ e_report.status = "completed"
    /\ \A m \in 1..TranslationMethods :
          Call(<<"translate", m>>, get_full_narration_text(e_segments), FALSE)
              \in e_calls
    /\ Call(<<"edge_tts", 0>>, e_text, FALSE) \in e_calls
    /\ Call(<<"fetch", 0>>, NoText, FALSE) \in e_calls


(***************************************************************************)
(* The stages of generate_video, by position in the code.                  *)
(***************************************************************************)
StageNames ==
    <<"translate", "audio", "fetch", "render", "composite", "encode", "finalize">>

\* the position at which each stage starts
StageEntry ==
    <<"translate", "audio", "custom", "render", "composite", "encode", "release">>

\* the stage a position belongs to; 0 outside generate_video
Stage(p) ==
    CASE p = "translate" -> 1
      [] p \in {"audio", "captions"} -> 2
      [] p \in {"custom", "source", "fallback", "arrange"} -> 3
      [] p = "render" -> 4
      [] p = "composite" -> 5
      [] p \in {"encode", "encoding"} -> 6
      [] p \in {"release", "move_remove", "move_rename", "copy", "copying", "finish"} -> 7
      [] OTHER -> 0

StageStep ==
    LET s == Stage(pc)
        t == Stage(pc')
    IN  /\ (pc = "start" /\ t > 0) => t = 1
        /\ (s > 0 /\ t > 0) => t \in {s, s + 1}
        /\ (s > 0 /\ t = s + 1) => pc' = StageEntry[t]
        /\ (s = 0 /\ pc # "start") => t = 0
        /\ pc' = "returned" => s = Len(StageNames)
        /\ (s > 0 /\ t = 0) => pc' \in {"returned", "raised", "crashed"}
        /\ (s > 0 /\ pc = StageEntry[s] /\ pc' # "crashed") =>
              \E i \in 1..Len(emitted') : emitted'[i].msg = StageNames[s]

(***************************************************************************)
(* C21: within one job the stages run in the order translate, narration,   *)
(* background, captions, composite, encode, finalize: a step stays in its  *)
(* stage, moves to the start of the next one, or leaves generate_video by  *)
(* an error; the job returns only from the last stage; and the step taken  *)
(* at the start of a stage makes a progress report that names the stage.   *)
(***************************************************************************)
StageOrder == [][StageStep]_vars

StageOrderWitness ==
    /\ pc = "returned"
    /\ raised = "none"
    /\ emitted = <<Report(99, "done")>>
    /\ entry = "library"


StatusMoves ==
    {<<"pending", "processing">>, <<"processing", "completed">>,
     <<"processing", "error">>}

LifecycleStep ==
    /\ \A j \in DOMAIN jobs :
          /\ j \in DOMAIN jobs'
          /\ jobs'[j].status # jobs[j].status =>
                <<jobs[j].status, jobs'[j].status>> \in StatusMoves
          /\ jobs'[j].progress >= jobs[j].progress
          /\ jobs'[j] # jobs[j] =>
                /\ wpc'[j] # wpc[j]
                /\ \A k \in FlaskJobIds \ {j} : wpc'[k] = wpc[k]
    /\ \A j \in DOMAIN jobs' \ DOMAIN jobs : jobs'[j] = VideoJob(j)

(***************************************************************************)
(* C22: a job's status moves only from pending to processing and from      *)
(* processing to completed or error, and never leaves completed or error;  *)
(* a job's fields change only in a step of its own worker; and its         *)
(* progress never decreases.                                               *)
(***************************************************************************)
JobStatusLifecycle == [][LifecycleStep]_vars

JobStatusLifecycleWitness ==
    /\ Len(jobs) = 2
    /\ jobs[1].status = "error" /\ jobs[1].progress > 5
    /\ jobs[2].status = "completed" /\ jobs[2].progress = 100

(***************************************************************************)
(* C30: whenever a request has read a job's status as completed the job's  *)
(* output_file is set, and /download does not answer "Video not ready"     *)
(* for a job whose status a request has read as completed.                 *)
(***************************************************************************)
CompletedImpliesDownloadable ==
    /\ \A j \in observed : jobs[j].output_file # "None"
    /\ (req.route = "download" /\ req.answer.code = "400") =>
          req.job_id \notin observed

CompletedImpliesDownloadableWitness ==
    /\ req.route = "download"
    /\ req.answer.code = "file"
    /\ req.job_id \in observed
    /\ wpc[req.job_id] = "write3"


(***************************************************************************)
(* C23: every segment returned by parse_script has a kind among hook, core *)
(* and cta, a text that is not empty and at least one display line; no     *)
(* display line is empty; the segments are in the order of the input; a    *)
(* text that starts outside any header gives a first segment of kind core; *)
(* and a text of blank lines only gives no segment.                        *)
(***************************************************************************)
ParserWellFormed ==
    epc \notin {"off", "parse"} =>
        /\ \A k \in 1..Len(e_segments) :
              /\ e_segments[k].segment_type \in {"hook", "core", "cta"}
              /\ e_segments[k].text # <<>>
              /\ e_segments[k].display_lines # <<>>
              /\ \A d \in 1..Len(e_segments[k].display_lines) :
                    e_segments[k].display_lines[d] # <<>>
              /\ \A m \in 1..(k - 1) : e_segments[m].at < e_segments[k].at
        /\ \A i \in 1..Len(e_script) :
              (e_script[i].head = "none" /\ e_script[i] # BlankLine
                 /\ \A m \in 1..(i - 1) : e_script[m] = BlankLine)
                => (e_segments # <<>> /\ e_segments[1].segment_type = "core")
        /\ (\A i \in 1..Len(e_script) : e_script[i] = BlankLine) => e_segments = <<>>

ParserWellFormedWitness ==
    /\ epc = "translate"
    /\ Len(e_script) = 3
    /\ Len(e_segments) = 2
    /\ e_segments[1].segment_type = "core"
    /\ Len(e_segments[1].display_lines) = 2
    /\ e_segments[2].segment_type = "cta"


CleanupStep ==
    pc = "cleanup" =>
        /\ raised' = raised
        /\ pc' \in {"cleanup", "ended"}
        /\ attempt < RmtreeAttempts /\ attempt' < RmtreeAttempts
        /\ pc' = "cleanup" => (attempt' = attempt + 1 /\ temp_files' = temp_files)
        /\ (pc' = "ended" /\ temp_files' # {}) => attempt = RmtreeAttempts - 1
        /\ pc' = "ended" => outcome' = (IF raised = "none" THEN "completed" ELSE "error")

(***************************************************************************)
(* C24: cleanup_temp_files never raises: every step of it leaves the       *)
(* pending exception as it was and it ends by returning; the bulk removal  *)
(* is tried at most RmtreeAttempts times, and files are left behind, by    *)
(* the per-file pass that skips them, only after the last attempt failed.  *)
(***************************************************************************)
CleanupNeverThrows == [][CleanupStep]_vars

CleanupNeverThrowsWitness ==
    /\ pc = "ended"
    /\ entry = "run"
    /\ temp_files # {}
    /\ attempt = RmtreeAttempts - 1
    /\ outcome = "completed"


(***************************************************************************)
(* C25: a report made while the encoder prepares the audio carries the     *)
(* audio-preparation label and a fraction in [0.78, 0.80], and a report    *)
(* made while it writes frames carries a rendering or writing label and a  *)
(* fraction in [0.80, 0.92], whatever the totals of the passes.            *)
(***************************************************************************)
DisjointEncoderSubranges ==
    pc = "encoding" =>
        \A i \in 1..Len(emitted) :
            /\ logger.bar = "chunk" =>
                  /\ emitted[i].msg = "audio_prep"
                  /\ RLe(Pct(78), emitted[i].pct) /\ RLe(emitted[i].pct, Pct(80))
            /\ logger.bar = "t" =>
                  /\ emitted[i].msg \in {"rendering", "writing"}
                  /\ RLe(Pct(80), emitted[i].pct) /\ RLe(emitted[i].pct, Pct(92))


(***************************************************************************)
(* C26: a Gradio request with a parseable script and a configured media    *)
(* source, during which no cancellation is requested, ends in completion:  *)
(* the handler's call of generate_video is accepted and the handler does   *)
(* not end in an error.                                                    *)
(***************************************************************************)
GradioJobCompletes ==
    (gpc = "idle" /\ g_outcome # "none" /\ g_input.script = "ok"
       /\ g_input.has_source /\ g_input.keys_ok /\ ~requested_in_job)
      => g_outcome = "completed"


(***************************************************************************)
(* C27: once the clips are arranged every segment of the background track  *)
(* lasts no longer than the content it holds, the clip's own frames        *)
(* repeated as often as it was looped, so that no instant of the track     *)
(* lies beyond the end of a clip; a single clip shorter than the narration *)
(* is looped to cover it.                                                  *)
(***************************************************************************)
NoGapsInVisualTrack ==
    pc = "render" =>
        \A i \in 1..Len(bg.segments) :
            RLe(bg.segments[i].duration, bg.segments[i].content)

\* C28: whatever the caption text and whichever of the font sizes 28, 30, 32,
\* the caption background box lies inside the frame: its top is at or below
\* the vertical midpoint, its bottom is at or above the bottom edge of the
\* frame, and it keeps 20 pixels from the left and the right edge.
CaptionBoxInFrame ==
    (cpc = "done" /\ c_box.drawn) =>
        /\ RLe(Rat(VIDEO_HEIGHT, 2), c_box.y1)
        /\ RLe(c_box.y2, Rat(VIDEO_HEIGHT, 1))
        /\ RLe(Rat(20, 1), c_box.x1)
        /\ RLe(c_box.x2, Rat(VIDEO_WIDTH - 20, 1))

\* C29: Pexels is tried whenever stock videos are enabled with an API key and
\* no background clip has been obtained, also when a requested anime, GIPHY or
\* Pixabay source yielded nothing: the procedural background is reached with
\* no clip only after the Pexels search was made.
SourceFallThrough ==
    (pc = "fallback" /\ opts.stock /\ background_clips = <<>>) =>
        \E i \in 1..Len(emitted) : emitted[i].pct = Pct(38)


====
